---- MODULE Spec2Model ----
(***************************************************************************)
(* Wind & solar generation ingestion service: chunk planner, chunk fetcher *)
(* with retry, ingestion orchestrator, preprocessing (deduplicate,         *)
(* normalise, quality gate) and the persistence upsert.                    *)
(*                                                                         *)
(* Dates are day numbers (timedelta arithmetic is integer arithmetic).     *)
(* Strings that the code compares with < are sequences of naturals under   *)
(* lexicographic order.                                                    *)
(***************************************************************************)
EXTENDS Integers, Sequences, FiniteSets, TLC

VARIABLES planner,   \* the date_chunks generator
          fetcher,   \* one call of fetch_single_chunk, retry wrapper included
          orch,      \* one call of fetch_generation_data
          prep,      \* one call of a preprocessing function
          route,     \* one request to POST /fetch
          db,        \* the committed rows of wind_solar_generation
          sess       \* one database session running DatabaseOperations

vars == <<planner, fetcher, orch, prep, route, db, sess>>
prepVars == <<prep, route>>
storeVars == <<db, sess>>

(***************************************************************************)
(* Bounds                                                                  *)
(***************************************************************************)
MaxDay == 12         \* date arguments lie within days 0..MaxDay
MaxChunkRecords == 2 \* an upstream payload carries 0..MaxChunkRecords records
MaxDaysArg == 3      \* planner `days` argument ranges over 1..MaxDaysArg (and the default)

(***************************************************************************)
(* Program constants (utils/fetcher.py)                                    *)
(***************************************************************************)
MAX_CHUNK_DAYS == 6

Min(a, b) == IF a <= b THEN a ELSE b

(***************************************************************************)
(* Chunk planner: date_chunks(start, end, days)                            *)
(***************************************************************************)
\* Mutant: the clamp to `end` is lost.
chunk_end_unclamped(cur, end, days) == cur + (days - 1)

\* Lines 26-31: the end of the chunk that starts at cur.
chunk_end_of(cur, end, days) ==
    LET chunk_end   == Min(cur + (days - 1), end)
        actual_days == (chunk_end - cur) + 1
    IN  IF actual_days > days THEN cur + (days - 1) ELSE chunk_end

PlannerDays == (1..MaxDaysArg) \cup {MAX_CHUNK_DAYS}

\* Lines 22-23: the generator's state when its body starts.
NewGenerator(s, e, d) ==
    [start |-> s, end |-> e, days |-> d,
     current |-> s, chunk_count |-> 0,
     yielded |-> << >>, pc |-> "run"]

NoGenerator == [pc |-> "none"]
IdleFetcher == [pc |-> "idle"]
IdleOrch == [pc |-> "idle"]
IdlePrep == [pc |-> "idle"]
EmptyDb == << >>
IdleSess == [pc |-> "idle"]
IdleRoute == [pc |-> "idle"]

PlannerInit ==
    /\ \E s \in 0..MaxDay, e \in 0..MaxDay, d \in PlannerDays :
          planner = NewGenerator(s, e, d)
    /\ fetcher = IdleFetcher
    /\ orch = IdleOrch
    /\ prep = IdlePrep
    /\ db = EmptyDb
    /\ sess = IdleSess
    /\ route = IdleRoute

\* One iteration of the while loop: yield (current, chunk_end), advance.
date_chunks_step ==
    /\ planner.pc = "run"
    /\ planner.current <= planner.end
    /\ LET ce == chunk_end_of(planner.current, planner.end, planner.days)
       IN  planner' = [planner EXCEPT
                          !.yielded = Append(@, <<planner.current, ce>>),
                          !.chunk_count = @ + 1,
                          !.current = ce + 1]

\* The while condition fails: the generator is exhausted.
date_chunks_exhausted ==
    /\ planner.pc = "run"
    /\ planner.current > planner.end
    /\ planner' = [planner EXCEPT !.pc = "done"]

\* list(date_chunks(cur, end, days)): the whole sequence the generator yields.
RECURSIVE date_chunks_all(_, _, _)
date_chunks_all(cur, end, days) ==
    IF cur > end THEN << >>
    ELSE LET ce == chunk_end_of(cur, end, days)
         IN  << <<cur, ce>> >> \o date_chunks_all(ce + 1, end, days)

\* A consumer that drives the generator on its own.
date_chunks_yield == date_chunks_step /\ UNCHANGED <<fetcher, orch, prepVars, storeVars>>

date_chunks_return == date_chunks_exhausted /\ UNCHANGED <<fetcher, orch, prepVars, storeVars>>

PlannerNext == date_chunks_yield \/ date_chunks_return

SpecPlanner == PlannerInit /\ [][PlannerNext]_vars

(***************************************************************************)
(* Chunk fetcher: fetch_single_chunk(from_dt, to_dt) under                 *)
(* @retry(stop_after_attempt(3), wait_exponential(1, 4, 10),               *)
(*        retry_if_exception_type((RequestError, HTTPStatusError)))        *)
(***************************************************************************)
STOP_AFTER_ATTEMPT == 3
WAIT_MULTIPLIER == 1
WAIT_MIN == 4
WAIT_MAX == 10

Max(a, b) == IF a >= b THEN a ELSE b

RECURSIVE Pow2(_)
Pow2(n) == IF n <= 0 THEN 1 ELSE 2 * Pow2(n - 1)

\* wait_exponential: multiplier * 2^(attempt - 1), clamped to [min, max].
wait_exponential(attempt) ==
    Max(WAIT_MIN, Min(WAIT_MULTIPLIER * Pow2(attempt - 1), WAIT_MAX))

\* Mutant: the wrapper stops one attempt later.
stop_after_attempt_late(attempt) == attempt > STOP_AFTER_ATTEMPT

\* stop_after_attempt(3)
stop_after_attempt(attempt) == attempt >= STOP_AFTER_ATTEMPT

\* retry_if_exception_type((httpx.RequestError, httpx.HTTPStatusError))
TransientErrors == {"RequestError", "HTTPStatusError"}

\* retry=...: the wrapper retries when the exception is of a listed type.
retry_if_exception_type(exc) == exc \in TransientErrors

\* Line 63: response.raise_for_status() raises HTTPStatusError for every
\* 4xx and 5xx response.
raise_for_status(status) == status \in {"4xx", "5xx"}

\* Lines 60-66: what a request ends in when it does not yield a decoded
\* payload, with the exception the body raises: no response (RequestError),
\* an error status (HTTPStatusError), or a 2xx body that response.json()
\* cannot decode (a ValueError subclass, caught by "except Exception").
RequestFailures ==
    {[exc |-> "RequestError", status |-> "none"]}
    \cup {[exc |-> "HTTPStatusError", status |-> st] :
             st \in {st \in {"2xx", "4xx", "5xx"} : raise_for_status(st)}}
    \cup {[exc |-> "Exception", status |-> "2xx"]}

\* Line 53
days_diff(from_dt, to_dt) == (to_dt - from_dt) + 1

\* Mutant: the limit is compared one day too late.
range_too_large_off_by_one(from_dt, to_dt) == days_diff(from_dt, to_dt) > 8

\* Line 54
range_too_large(from_dt, to_dt) == days_diff(from_dt, to_dt) > 7

\* Lines 68-81: the n upstream records of the chunk starting at from_dt, mapped.
TransformedData(from_dt, n) == [j \in 1..n |-> <<from_dt, j>>]

\* The state of a call when the retry wrapper makes its first attempt.
\* waits and failures are the call's history: the sleeps of the wrapper and
\* what each failed request ended in.
NewCall(caller, from_dt, to_dt) ==
    [pc |-> "attempt", caller |-> caller, from_dt |-> from_dt, to_dt |-> to_dt,
     attempt_number |-> 1, http_requests |-> 0, waits |-> << >>,
     failures |-> << >>, data |-> << >>, error |-> "none"]

\* Lines 53-56: the range check raises ValueError, which is not retried.
fetch_range_error ==
    /\ fetcher.pc = "attempt"
    /\ range_too_large(fetcher.from_dt, fetcher.to_dt)
    /\ fetcher' = [fetcher EXCEPT !.pc = "raised", !.error = "ValueError"]
    /\ UNCHANGED <<planner, orch, prepVars, storeVars>>

\* Lines 60-84: the request succeeds and the payload is mapped.
fetch_http_ok ==
    /\ fetcher.pc = "attempt"
    /\ ~range_too_large(fetcher.from_dt, fetcher.to_dt)
    /\ \E n \in 0..MaxChunkRecords :
          fetcher' = [fetcher EXCEPT
                         !.http_requests = @ + 1,
                         !.pc = "returned",
                         !.error = "none",
                         !.data = TransformedData(fetcher.from_dt, n)]
    /\ UNCHANGED <<planner, orch, prepVars, storeVars>>

\* Lines 86-91 and the retry wrapper: a network or HTTP-status error is
\* re-raised; the wrapper stops with RetryError after the last attempt and
\* otherwise waits.
fetch_http_transient ==
    /\ fetcher.pc = "attempt"
    /\ ~range_too_large(fetcher.from_dt, fetcher.to_dt)
    /\ \E f \in RequestFailures :
          /\ retry_if_exception_type(f.exc)
          /\ fetcher' = [fetcher EXCEPT
                            !.http_requests = @ + 1,
                            !.failures = Append(@, f),
                            !.pc = IF stop_after_attempt(fetcher.attempt_number)
                                   THEN "raised" ELSE "wait",
                            !.error = IF stop_after_attempt(fetcher.attempt_number)
                                      THEN "RetryError" ELSE f.exc]
    /\ UNCHANGED <<planner, orch, prepVars, storeVars>>

\* Lines 92-94: any other exception (an undecodable body) is re-raised and
\* is not of a retried type.
fetch_http_other ==
    /\ fetcher.pc = "attempt"
    /\ ~range_too_large(fetcher.from_dt, fetcher.to_dt)
    /\ \E f \in RequestFailures :
          /\ ~retry_if_exception_type(f.exc)
          /\ fetcher' = [fetcher EXCEPT
                            !.http_requests = @ + 1,
                            !.failures = Append(@, f),
                            !.pc = "raised",
                            !.error = f.exc]
    /\ UNCHANGED <<planner, orch, prepVars, storeVars>>

\* The retry wrapper sleeps and starts the next attempt.
fetch_retry ==
    /\ fetcher.pc = "wait"
    /\ fetcher' = [fetcher EXCEPT
                      !.waits = Append(@, wait_exponential(fetcher.attempt_number)),
                      !.attempt_number = @ + 1,
                      !.pc = "attempt"]
    /\ UNCHANGED <<planner, orch, prepVars, storeVars>>

FetcherNext ==
    \/ fetch_range_error
    \/ fetch_http_ok
    \/ fetch_http_transient
    \/ fetch_http_other
    \/ fetch_retry

(***************************************************************************)
(* Ingestion orchestrator: fetch_generation_data(start_date, end_date)     *)
(***************************************************************************)
RATE_LIMIT_DELAY == 1

\* A date string: the day it denotes when it matches %Y-%m-%d.
DateStrings ==
    [ok : {TRUE}, day : 0..MaxDay] \cup {[ok |-> FALSE, day |-> 0]}

\* The state of a call on entry.  trace, outcomes and fetched are the
\* call's history: its fetches and sleeps in order, each chunk's outcome,
\* and the list each chunk's fetch handed back (none when it raised).
NewOrch(start_date, end_date) ==
    [pc |-> "entry", start_date |-> start_date, end_date |-> end_date,
     start |-> 0, end |-> 0, total_days |-> 0, expected_chunks |-> 0,
     chunk_num |-> 0, all_data |-> << >>,
     successful_chunks |-> 0, failed_chunks |-> 0,
     trace |-> << >>, outcomes |-> << >>, fetched |-> << >>,
     error |-> "none"]

FetchEvent(from_dt, to_dt) == [ev |-> "fetch", a |-> from_dt, b |-> to_dt]
SleepEvent(chunk_num) == [ev |-> "sleep", a |-> chunk_num, b |-> RATE_LIMIT_DELAY]

\* Mutant: the range check is missing, so an inverted range goes on to the
\* loop; only a date that does not parse raises.
orch_invalid_unchecked ==
    /\ orch.pc = "entry"
    /\ IF orch.start_date.ok /\ orch.end_date.ok
       THEN /\ orch' = [orch EXCEPT
                           !.pc = "for",
                           !.start = orch.start_date.day,
                           !.end = orch.end_date.day]
            /\ planner' = NewGenerator(orch.start_date.day, orch.end_date.day,
                                       MAX_CHUNK_DAYS)
       ELSE /\ orch' = [orch EXCEPT !.pc = "raised", !.error = "ValueError"]
            /\ UNCHANGED planner
    /\ UNCHANGED <<fetcher, prepVars, storeVars>>

\* Lines 99-105, 142-144: strptime fails or start > end: ValueError is re-raised.
orch_invalid ==
    /\ orch.pc = "entry"
    /\ \/ ~orch.start_date.ok
       \/ ~orch.end_date.ok
       \/ orch.start_date.day > orch.end_date.day
    /\ orch' = [orch EXCEPT !.pc = "raised", !.error = "ValueError"]
    /\ UNCHANGED <<planner, fetcher, prepVars, storeVars>>

\* Lines 99-116: parse, count the expected chunks, create the generator.
orch_begin ==
    /\ orch.pc = "entry"
    /\ orch.start_date.ok
    /\ orch.end_date.ok
    /\ orch.start_date.day <= orch.end_date.day
    /\ LET start      == orch.start_date.day
           end        == orch.end_date.day
           total_days == (end - start) + 1
       IN  /\ orch' = [orch EXCEPT
                          !.pc = "for",
                          !.start = start,
                          !.end = end,
                          !.total_days = total_days,
                          !.expected_chunks =
                              (total_days + MAX_CHUNK_DAYS - 1) \div MAX_CHUNK_DAYS]
           /\ planner' = NewGenerator(start, end, MAX_CHUNK_DAYS)
    /\ UNCHANGED <<fetcher, prepVars, storeVars>>

\* Lines 116-120: the for loop takes the next chunk and calls the fetcher.
orch_next_chunk ==
    /\ orch.pc = "for"
    /\ date_chunks_step
    /\ LET c == planner'.yielded[Len(planner'.yielded)]
       IN  /\ orch' = [orch EXCEPT
                          !.pc = "call",
                          !.chunk_num = @ + 1,
                          !.trace = Append(@, FetchEvent(c[1], c[2]))]
           /\ fetcher' = NewCall("orchestrator", c[1], c[2])
    /\ UNCHANGED <<prepVars, storeVars>>

\* Mutant: the chunk's records are put in front of the accumulated list.
orch_chunk_returned_prepends ==
    /\ orch.pc = "call"
    /\ fetcher.pc = "returned"
    /\ LET data    == fetcher.data
           hasData == data # << >>
           sleeps  == orch.chunk_num < orch.expected_chunks
       IN  orch' = [orch EXCEPT
                       !.pc = "for",
                       !.all_data = IF hasData THEN data \o @ ELSE @,
                       !.successful_chunks = IF hasData THEN @ + 1 ELSE @,
                       !.outcomes = Append(@, IF hasData THEN "data" ELSE "empty"),
                       !.fetched = Append(@, data),
                       !.trace = IF sleeps THEN Append(@, SleepEvent(orch.chunk_num))
                                 ELSE @]
    /\ fetcher' = IdleFetcher
    /\ UNCHANGED <<planner, prepVars, storeVars>>

\* Mutant: a chunk that returned an empty list is counted as successful.
orch_chunk_returned_counts_empty ==
    /\ orch.pc = "call"
    /\ fetcher.pc = "returned"
    /\ LET data    == fetcher.data
           hasData == data # << >>
           sleeps  == orch.chunk_num < orch.expected_chunks
       IN  orch' = [orch EXCEPT
                       !.pc = "for",
                       !.all_data = IF hasData THEN @ \o data ELSE @,
                       !.successful_chunks = @ + 1,
                       !.outcomes = Append(@, IF hasData THEN "data" ELSE "empty"),
                       !.fetched = Append(@, data),
                       !.trace = IF sleeps THEN Append(@, SleepEvent(orch.chunk_num))
                                 ELSE @]
    /\ fetcher' = IdleFetcher
    /\ UNCHANGED <<planner, prepVars, storeVars>>

\* Lines 122-130: the fetch returned; extend, count, sleep unless last.
orch_chunk_returned ==
    /\ orch.pc = "call"
    /\ fetcher.pc = "returned"
    /\ LET data    == fetcher.data
           hasData == data # << >>
           sleeps  == orch.chunk_num < orch.expected_chunks
       IN  orch' = [orch EXCEPT
                       !.pc = "for",
                       !.all_data = IF hasData THEN @ \o data ELSE @,
                       !.successful_chunks = IF hasData THEN @ + 1 ELSE @,
                       !.outcomes = Append(@, IF hasData THEN "data" ELSE "empty"),
                       !.fetched = Append(@, data),
                       !.trace = IF sleeps THEN Append(@, SleepEvent(orch.chunk_num))
                                 ELSE @]
    /\ fetcher' = IdleFetcher
    /\ UNCHANGED <<planner, prepVars, storeVars>>

\* Mutant: a chunk failure propagates out of the loop.
orch_chunk_raised_aborts ==
    /\ orch.pc = "call"
    /\ fetcher.pc = "raised"
    /\ orch' = [orch EXCEPT
                   !.pc = "raised",
                   !.error = fetcher.error,
                   !.outcomes = Append(@, "raised"),
                   !.fetched = Append(@, << >>)]
    /\ fetcher' = IdleFetcher
    /\ UNCHANGED <<planner, prepVars, storeVars>>

\* Lines 132-135: the fetch raised; count the failure and continue.
orch_chunk_raised ==
    /\ orch.pc = "call"
    /\ fetcher.pc = "raised"
    /\ orch' = [orch EXCEPT
                   !.pc = "for",
                   !.failed_chunks = @ + 1,
                   !.outcomes = Append(@, "raised"),
                   !.fetched = Append(@, << >>)]
    /\ fetcher' = IdleFetcher
    /\ UNCHANGED <<planner, prepVars, storeVars>>

\* Lines 137-140: the generator is exhausted; return all_data.
orch_return ==
    /\ orch.pc = "for"
    /\ date_chunks_exhausted
    /\ orch' = [orch EXCEPT !.pc = "done"]
    /\ UNCHANGED <<fetcher, prepVars, storeVars>>

OrchNext ==
    \/ orch_invalid
    \/ orch_begin
    \/ orch_next_chunk
    \/ orch_chunk_returned
    \/ orch_chunk_raised
    \/ orch_return

\* The fetcher is called either directly, with any pair of dates, or by the
\* orchestrator.
IngestInit ==
    /\ planner = NoGenerator
    /\ prep = IdlePrep
    /\ db = EmptyDb
    /\ sess = IdleSess
    /\ route = IdleRoute
    /\ \/ /\ orch = IdleOrch
          /\ \E f \in 0..MaxDay, t \in 0..MaxDay :
                fetcher = NewCall("direct", f, t)
       \/ /\ fetcher = IdleFetcher
          /\ \E sd \in DateStrings, ed \in DateStrings :
                orch = NewOrch(sd, ed)

IngestNext == FetcherNext \/ OrchNext

SpecIngest == IngestInit /\ [][IngestNext]_vars

\* Every started call keeps running: the code is sequential and each
\* request is bounded by its timeout.
SpecIngestFair == SpecIngest /\ WF_vars(IngestNext)

(***************************************************************************)
(* Records (utils/preprocessing.py works on lists of dicts)                *)
(*                                                                         *)
(* A dict is a function from field names to values.  A value is None or a  *)
(* string; a string is its sequence of characters, so that < is the        *)
(* lexicographic order the code uses.                                      *)
(***************************************************************************)
None == [none |-> TRUE, s |-> << >>]
Str(chars) == [none |-> FALSE, s |-> chars]

\* record.get(field)
get(record, field) ==
    IF field \in DOMAIN record THEN record[field] ELSE None

\* record.get(field, default)
get_default(record, field, default) ==
    IF field \in DOMAIN record THEN record[field] ELSE default

Restrict(record, fields) == [f \in fields |-> record[f]]

\* str.__lt__
RECURSIVE LexLess(_, _)
LexLess(a, b) ==
    IF b = << >> THEN FALSE
    ELSE IF a = << >> THEN TRUE
    ELSE IF Head(a) < Head(b) THEN TRUE
    ELSE IF Head(a) > Head(b) THEN FALSE
    ELSE LexLess(Tail(a), Tail(b))

SeqsUpTo(S, n) == UNION {[1..k -> S] : k \in 0..n}

\* Sample field values.
D1 == Str(<<2, 0, 2, 4, 0, 1, 0, 1>>)       \* "2024-01-01"
P1 == Str(<<1>>)                            \* settlement period 1
SOLAR == Str(<<5>>)                         \* "Solar"
T00 == Str(<<0, 0>>)                        \* "2024-01-01T00:00:00Z"
T01 == Str(<<0, 1>>)                        \* "2024-01-01T01:00:00Z"
Q100 == Str(<<1, 0, 0>>)                    \* 100.5
Q105 == Str(<<1, 0, 5>>)                    \* 105.0

(***************************************************************************)
(* Deduplicator: deduplicate_data(data)                                    *)
(***************************************************************************)
MaxDedupLen == 3     \* deduplicate_data inputs have 0..MaxDedupLen records

\* Lines 19-23
natural_key(record) ==
    <<get(record, "settlementDate"),
      get(record, "settlementPeriod"),
      get(record, "psrType")>>

\* Mutant: a new key is put in front of the keys seen so far.
RECURSIVE group_keys_newest_first(_)
group_keys_newest_first(data) ==
    IF data = << >> THEN << >>
    ELSE LET before == group_keys_newest_first(SubSeq(data, 1, Len(data) - 1))
             key    == natural_key(data[Len(data)])
         IN  IF \E i \in 1..Len(before) : before[i] = key
             THEN before
             ELSE <<key>> \o before

\* Lines 16-24: the keys of record_groups, in insertion order.
RECURSIVE group_keys(_)
group_keys(data) ==
    IF data = << >> THEN << >>
    ELSE LET before == group_keys(SubSeq(data, 1, Len(data) - 1))
             key    == natural_key(data[Len(data)])
         IN  IF \E i \in 1..Len(before) : before[i] = key
             THEN before
             ELSE Append(before, key)

\* Lines 16-24: record_groups[key], in input order.
group_of(data, key) == SelectSeq(data, LAMBDA r : natural_key(r) = key)

\* Line 31: key=lambda x: x.get("publishTime", "")
publish_key(x) == get_default(x, "publishTime", Str(<< >>))

\* Mutant: the sort is ascending (reverse=True dropped).
RECURSIVE insert_asc(_, _)
insert_asc(sorted, x) ==
    IF sorted = << >> THEN <<x>>
    ELSE IF LexLess(publish_key(x).s, publish_key(Head(sorted)).s)
         THEN <<x>> \o sorted
         ELSE <<Head(sorted)>> \o insert_asc(Tail(sorted), x)

\* Mutant: the sort is not stable; x goes before the records with an equal
\* key.
RECURSIVE insert_desc_unstable(_, _)
insert_desc_unstable(sorted, x) ==
    IF sorted = << >> THEN <<x>>
    ELSE IF ~LexLess(publish_key(x).s, publish_key(Head(sorted)).s)
         THEN <<x>> \o sorted
         ELSE <<Head(sorted)>> \o insert_desc_unstable(Tail(sorted), x)

\* list.sort(reverse=True) is stable: x goes after every record whose key
\* is not smaller than its own.
RECURSIVE insert_desc(_, _)
insert_desc(sorted, x) ==
    IF sorted = << >> THEN <<x>>
    ELSE IF LexLess(publish_key(Head(sorted)).s, publish_key(x).s)
         THEN <<x>> \o sorted
         ELSE <<Head(sorted)>> \o insert_desc(Tail(sorted), x)

\* Line 31: records.sort(key=..., reverse=True)
RECURSIVE sort_desc(_)
sort_desc(records) ==
    IF records = << >> THEN << >>
    ELSE insert_desc(sort_desc(SubSeq(records, 1, Len(records) - 1)),
                     records[Len(records)])

\* Line 31: sorting two or more records compares every key with another
\* one, and None < x raises TypeError.
sort_raises(records) ==
    /\ Len(records) > 1
    /\ \E i \in 1..Len(records) : publish_key(records[i]).none

\* Lines 9-37
deduplicate_data(data) ==
    IF data = << >> THEN [raised |-> FALSE, out |-> << >>]
    ELSE LET keys == group_keys(data)
         IN  IF \E i \in 1..Len(keys) : sort_raises(group_of(data, keys[i]))
             THEN [raised |-> TRUE, out |-> << >>]
             ELSE [raised |-> FALSE,
                   out |-> [i \in 1..Len(keys) |->
                              LET records == group_of(data, keys[i])
                              IN  IF Len(records) > 1
                                  THEN Head(sort_desc(records))
                                  ELSE records[1]]]

DedupFields ==
    {"settlementDate", "settlementPeriod", "psrType", "publishTime", "quantity"}

\* Records as the fetcher shapes them (a field the upstream omits is None)
\* and records that lack publishTime or settlementDate altogether.
DedupPool ==
    {Restrict(r, fields) :
        r \in [settlementDate : {D1, None}, settlementPeriod : {P1},
               psrType : {SOLAR}, publishTime : {None, T00, T01},
               quantity : {Q100, Q105}],
        fields \in {DedupFields,
                    DedupFields \ {"publishTime"},
                    DedupFields \ {"settlementDate"}}}

DedupInit ==
    /\ \E data \in SeqsUpTo(DedupPool, MaxDedupLen) :
          prep = [pc |-> "input", data |-> data]
    /\ planner = NoGenerator
    /\ fetcher = IdleFetcher
    /\ orch = IdleOrch
    /\ db = EmptyDb
    /\ sess = IdleSess
    /\ route = IdleRoute

call_deduplicate_data ==
    /\ prep.pc = "input"
    /\ LET result == deduplicate_data(prep.data)
       IN  prep' = [pc |-> "deduplicated", data |-> prep.data,
                    raised |-> result.raised, out |-> result.out]
    /\ UNCHANGED <<planner, fetcher, orch, route, storeVars>>

DedupNext == call_deduplicate_data

SpecDedup == DedupInit /\ [][DedupNext]_vars

(***************************************************************************)
(* Field normaliser: handle_missing_fields(data)                           *)
(***************************************************************************)
MaxNormLen == 2      \* handle_missing_fields inputs have 0..MaxNormLen records

\* Lines 46-49
expected_fields ==
    {"publishTime", "businessType", "psrType", "quantity", "startTime",
     "settlementDate", "settlementPeriod", "fuelType", "region"}

\* Mutant: fields outside the expected ones are dropped.
processed_record_closed(record) ==
    [field \in expected_fields |->
        IF field \in DOMAIN record /\ ~record[field].none
        THEN record[field] ELSE None]

\* Lines 55-66
processed_record(record) ==
    [field \in expected_fields \cup DOMAIN record |->
        IF field \in expected_fields
        THEN IF field \in DOMAIN record /\ ~record[field].none
             THEN record[field] ELSE None
        ELSE record[field]]

\* Lines 39-76
handle_missing_fields(data) ==
    IF data = << >> THEN << >>
    ELSE [i \in 1..Len(data) |-> processed_record(data[i])]

A75 == Str(<<7, 5>>)                        \* "A75"
GB == Str(<<6>>)                            \* "GB"
EXTRA == Str(<<9>>)                         \* the value of a field outside the schema

\* Complete records, records with null fields, an extra field, partial
\* records and the empty dict.
NormPool ==
    {Restrict(r, fields) :
        r \in [publishTime : {None, T00}, businessType : {A75},
               psrType : {SOLAR}, quantity : {None, Q100}, startTime : {T00},
               settlementDate : {D1}, settlementPeriod : {P1},
               fuelType : {SOLAR}, region : {None, GB},
               extraField : {None, EXTRA}],
        fields \in {expected_fields \cup {"extraField"},
                    expected_fields,
                    {"settlementDate", "psrType", "quantity"},
                    {"extraField"},
                    {}}}

NormInit ==
    /\ \E data \in SeqsUpTo(NormPool, MaxNormLen) :
          prep = [pc |-> "input", data |-> data]
    /\ planner = NoGenerator
    /\ fetcher = IdleFetcher
    /\ orch = IdleOrch
    /\ db = EmptyDb
    /\ sess = IdleSess
    /\ route = IdleRoute

call_handle_missing_fields ==
    /\ prep.pc = "input"
    /\ prep' = [pc |-> "normalized", data |-> prep.data,
                out |-> handle_missing_fields(prep.data)]
    /\ UNCHANGED <<planner, fetcher, orch, route, storeVars>>

NormNext == call_handle_missing_fields

SpecNormalize == NormInit /\ [][NormNext]_vars

(***************************************************************************)
(* Quality gate (processed): validate_processed_data(data)                 *)
(*                                                                         *)
(* data_quality_score is kept in hundredths: 6667 stands for 66.67.        *)
(***************************************************************************)
MaxValidateLen == 6  \* validate_processed_data inputs have 0..MaxValidateLen records

\* Line 85
critical_fields == {"settlementDate", "settlementPeriod", "psrType", "quantity"}

\* bool(value) of None or a string
Truthy(value) == ~value.none /\ value.s # << >>

\* The loop of lines 93-102 counts the records that satisfy a test.
RECURSIVE CountTrue(_)
CountTrue(flags) ==
    IF flags = << >> THEN 0
    ELSE (IF Head(flags) THEN 1 ELSE 0) + CountTrue(Tail(flags))

\* Mutant: a record is flagged only when every critical field is null.
has_missing_critical_all(record) ==
    \A field \in critical_fields : get(record, field).none

\* Lines 96-99
has_missing_critical(record) ==
    \E field \in critical_fields : get(record, field).none

\* Mutant: the quotient is cut to two decimals instead of rounded.
round2_truncated(num, den) == (10000 * num) \div den

\* Lines 111, 140: round(num / den * 100, 2), in hundredths.  round() goes
\* to the nearest hundredth and to the even one on a tie; the float
\* computation gives this value for every den below 160.
round2(num, den) ==
    LET q == (10000 * num) \div den
        r == (10000 * num) % den
    IN  IF 2 * r < den THEN q
        ELSE IF 2 * r > den THEN q + 1
        ELSE IF q % 2 = 0 THEN q ELSE q + 1

\* Mutant: data with no complete record is rejected.
validate_processed_data_strict(data) ==
    IF data = << >> \/ (\A i \in 1..Len(data) : has_missing_critical(data[i]))
    THEN [status |-> "error", message |-> "No data to validate"]
    ELSE [status |-> "success", record_count |-> Len(data)]

\* Lines 78-146 (quantity_stats, which no other output depends on, left out)
validate_processed_data(data) ==
    IF data = << >>
    THEN [status |-> "error", message |-> "No data to validate"]
    ELSE LET records_with_missing_critical ==
                 CountTrue([i \in 1..Len(data) |-> has_missing_critical(data[i])])
             missing_critical(field) ==
                 CountTrue([i \in 1..Len(data) |-> get(data[i], field).none])
             missing_fields ==
                 {field \in critical_fields : missing_critical(field) > 0}
         IN  [status |-> "success",
              record_count |-> Len(data),
              fuel_types |->
                  {get(data[i], "psrType") : i \in
                      {j \in 1..Len(data) : Truthy(get(data[j], "psrType"))}},
              settlement_dates |->
                  {get(data[i], "settlementDate") : i \in
                      {j \in 1..Len(data) : Truthy(get(data[j], "settlementDate"))}},
              missing_stats |->
                  [field \in missing_fields |->
                      [count |-> missing_critical(field),
                       percentage |-> <<missing_critical(field) * 100, Len(data)>>]],
              data_quality_score |->
                  round2(Len(data) - records_with_missing_critical, Len(data)),
              records_with_missing_critical |-> records_with_missing_critical]

CompleteRecord ==
    [publishTime |-> T00, businessType |-> A75, psrType |-> SOLAR,
     quantity |-> Q100, startTime |-> T00, settlementDate |-> D1,
     settlementPeriod |-> P1, fuelType |-> SOLAR, region |-> GB]

\* Normalised records: complete, or with one or two null critical fields.
ValidatePool ==
    {CompleteRecord,
     [CompleteRecord EXCEPT !.quantity = None],
     [CompleteRecord EXCEPT !.settlementDate = None],
     [CompleteRecord EXCEPT !.settlementDate = None, !.quantity = None]}

ValidateInit ==
    /\ \E data \in SeqsUpTo(ValidatePool, MaxValidateLen) :
          prep = [pc |-> "input", data |-> data]
    /\ planner = NoGenerator
    /\ fetcher = IdleFetcher
    /\ orch = IdleOrch
    /\ db = EmptyDb
    /\ sess = IdleSess
    /\ route = IdleRoute

call_validate_processed_data ==
    /\ prep.pc = "input"
    /\ prep' = [pc |-> "validated", data |-> prep.data,
                report |-> validate_processed_data(prep.data)]
    /\ UNCHANGED <<planner, fetcher, orch, route, storeVars>>

ValidateNext == call_validate_processed_data

SpecValidate == ValidateInit /\ [][ValidateNext]_vars

(***************************************************************************)
(* Persistence: DatabaseOperations over one session                        *)
(*                                                                         *)
(* db is the committed table, a sequence of rows in insertion (id) order.  *)
(* The session is created with autoflush=False (connection.py:44-48), so   *)
(* rows added and attributes changed during store_records reach the        *)
(* database only at commit, and the existence query sees committed rows.   *)
(***************************************************************************)
MaxBatch == 2        \* store_records batches have 0..MaxBatch records

IsDigits(chars) == \A i \in 1..Len(chars) : chars[i] \in 0..9

\* datetime.strptime(s, '%Y-%m-%d') succeeds (the dashes are not kept in
\* the character sequence).
strptime_ok(chars) ==
    /\ Len(chars) = 8
    /\ IsDigits(chars)
    /\ 10 * chars[5] + chars[6] \in 1..12
    /\ 10 * chars[7] + chars[8] \in 1..31

\* datetime.strptime(s, '%Y-%m-%d').date()
strptime_date(chars) ==
    Str(<<1000 * chars[1] + 100 * chars[2] + 10 * chars[3] + chars[4],
          10 * chars[5] + chars[6],
          10 * chars[7] + chars[8]>>)

\* datetime.fromisoformat(s.replace('Z', '+00:00')) succeeds
fromisoformat_ok(chars) == IsDigits(chars)

\* Lines 31-37: a non-empty string is parsed, anything else is kept.
parse_time_raises(value) ==
    ~value.none /\ value.s # << >> /\ ~fromisoformat_ok(value.s)

\* Lines 27-37: parsing one of the record's dates raises.
record_raises(record) ==
    \/ LET settlement_date == get(record, "settlementDate")
       IN  ~settlement_date.none /\ ~strptime_ok(settlement_date.s)
    \/ parse_time_raises(get(record, "publishTime"))
    \/ parse_time_raises(get(record, "startTime"))

\* Lines 27-29
parsed_settlement_date(record) ==
    LET settlement_date == get(record, "settlementDate")
    IN  IF settlement_date.none THEN None ELSE strptime_date(settlement_date.s)

\* Lines 60-70
new_record(record) ==
    [publish_time |-> get(record, "publishTime"),
     business_type |-> get(record, "businessType"),
     psr_type |-> get(record, "psrType"),
     quantity |-> get(record, "quantity"),
     start_time |-> get(record, "startTime"),
     settlement_date |-> parsed_settlement_date(record),
     settlement_period |-> get(record, "settlementPeriod"),
     fuel_type |-> get(record, "fuelType"),
     region |-> get_default(record, "region", GB)]

\* Lines 50-56
updated_record(existing, record) ==
    [existing EXCEPT
        !.publish_time = get(record, "publishTime"),
        !.business_type = get(record, "businessType"),
        !.quantity = get(record, "quantity"),
        !.start_time = get(record, "startTime"),
        !.fuel_type = get(record, "fuelType"),
        !.region = get_default(record, "region", GB)]

\* Lines 40-46: the filter of the existence query; == None renders IS NULL.
query_matches(row, record) ==
    /\ row.settlement_date = parsed_settlement_date(record)
    /\ row.settlement_period = get(record, "settlementPeriod")
    /\ row.psr_type = get(record, "psrType")

\* models.py:15: quantity is Numeric(10, 3); a value that is not a number
\* is rejected when the row is flushed.
numeric_ok(value) == value.none \/ (value.s # << >> /\ IsDigits(value.s))

\* models.py:25: UniqueConstraint on (settlement_date, settlement_period,
\* psr_type); two rows conflict when their keys are equal and free of NULL.
unique_conflict(row1, row2) ==
    /\ ~row1.settlement_date.none
    /\ ~row1.settlement_period.none
    /\ ~row1.psr_type.none
    /\ row1.settlement_date = row2.settlement_date
    /\ row1.settlement_period = row2.settlement_period
    /\ row1.psr_type = row2.psr_type

\* The table after the flush: dirty rows rewritten, new rows appended.
flushed(table, dirty, new) ==
    [id \in 1..Len(table) |->
        IF id \in DOMAIN dirty THEN dirty[id] ELSE table[id]] \o new

\* Line 79: the flush at commit raises.
flush_raises(table, dirty, new) ==
    LET after == flushed(table, dirty, new)
    IN  \/ \E id \in 1..Len(after) : ~numeric_ok(after[id].quantity)
        \/ \E id1, id2 \in 1..Len(after) :
              id1 < id2 /\ unique_conflict(after[id1], after[id2])

INVALID_DATE == Str(<<10, 11>>)             \* "invalid-date"
INVALID_NUMBER == Str(<<12, 13>>)           \* "invalid-number"

\* Normalised records with a valid, an unparseable or a null settlementDate
\* and a numeric or non-numeric quantity.
StorePool ==
    {[CompleteRecord EXCEPT !.settlementDate = sd, !.quantity = q] :
        sd \in {D1, INVALID_DATE, None}, q \in {Q100, Q105, INVALID_NUMBER}}

StoreInit ==
    /\ db = EmptyDb
    /\ sess = IdleSess
    /\ route = IdleRoute
    /\ planner = NoGenerator
    /\ fetcher = IdleFetcher
    /\ orch = IdleOrch
    /\ prep = IdlePrep

\* Lines 14-23: the state of a call on entry; an empty batch returns at
\* once.
NewStoreCall(records, table) ==
    [pc |-> IF records = << >> THEN "returned" ELSE "loop",
     op |-> "store_records", records |-> records, i |-> 1,
     inserted_count |-> 0, updated_count |-> 0, error_count |-> 0,
     new |-> << >>, dirty |-> << >>, before |-> table]

\* Lines 14-21: the call starts.
store_records_begin ==
    /\ sess.pc = "idle"
    /\ \E records \in SeqsUpTo(StorePool, MaxBatch) :
          sess' = NewStoreCall(records, db)
    /\ UNCHANGED <<db, planner, fetcher, orch, prepVars>>

\* The caller stores the batch of the call that just returned once more;
\* first keeps what that call reported and the store it started from.
store_records_again ==
    /\ sess.pc = "returned"
    /\ sess.op = "store_records"
    /\ "first" \notin DOMAIN sess
    /\ sess' = [pc |-> IF sess.records = << >> THEN "returned" ELSE "loop",
                op |-> "store_records", records |-> sess.records, i |-> 1,
                inserted_count |-> 0, updated_count |-> 0, error_count |-> 0,
                new |-> << >>, dirty |-> << >>, before |-> db,
                first |-> [inserted_count |-> sess.inserted_count,
                           updated_count |-> sess.updated_count,
                           error_count |-> sess.error_count,
                           before |-> sess.before]]
    /\ UNCHANGED <<db, planner, fetcher, orch, prepVars>>

\* Mutant: a record whose parsing raises is skipped without being counted.
store_record_error_uncounted ==
    /\ sess.pc = "loop"
    /\ sess.i <= Len(sess.records)
    /\ record_raises(sess.records[sess.i])
    /\ sess' = [sess EXCEPT !.i = @ + 1]
    /\ UNCHANGED <<db, planner, fetcher, orch, prepVars>>

\* Lines 25-37, 74-77: parsing raises; the record is counted and skipped.
store_record_error ==
    /\ sess.pc = "loop"
    /\ sess.i <= Len(sess.records)
    /\ record_raises(sess.records[sess.i])
    /\ sess' = [sess EXCEPT !.error_count = @ + 1, !.i = @ + 1]
    /\ UNCHANGED <<db, planner, fetcher, orch, prepVars>>

\* Lines 39-57: the query finds a row; its attributes are overwritten.
store_record_update ==
    /\ sess.pc = "loop"
    /\ sess.i <= Len(sess.records)
    /\ LET record == sess.records[sess.i]
       IN  /\ ~record_raises(record)
           /\ \E id \in 1..Len(db) :
                 /\ query_matches(db[id], record)
                 /\ LET existing == IF id \in DOMAIN sess.dirty
                                    THEN sess.dirty[id] ELSE db[id]
                    IN  sess' = [sess EXCEPT
                                    !.dirty = [k \in DOMAIN @ \cup {id} |->
                                                 IF k = id
                                                 THEN updated_record(existing, record)
                                                 ELSE @[k]],
                                    !.updated_count = @ + 1,
                                    !.i = @ + 1]
    /\ UNCHANGED <<db, planner, fetcher, orch, prepVars>>

\* Lines 39-48, 58-72: the query finds nothing; a new row is added.
store_record_insert ==
    /\ sess.pc = "loop"
    /\ sess.i <= Len(sess.records)
    /\ LET record == sess.records[sess.i]
       IN  /\ ~record_raises(record)
           /\ ~\E id \in 1..Len(db) : query_matches(db[id], record)
           /\ sess' = [sess EXCEPT
                          !.new = Append(@, new_record(record)),
                          !.inserted_count = @ + 1,
                          !.i = @ + 1]
    /\ UNCHANGED <<db, planner, fetcher, orch, prepVars>>

\* Lines 79-87: commit succeeds; the counters are returned.
store_commit ==
    /\ sess.pc = "loop"
    /\ sess.i > Len(sess.records)
    /\ ~flush_raises(db, sess.dirty, sess.new)
    /\ db' = flushed(db, sess.dirty, sess.new)
    /\ sess' = [sess EXCEPT !.pc = "returned"]
    /\ UNCHANGED <<planner, fetcher, orch, prepVars>>

\* Mutant: no rollback; the rows written before the failing statement stay.
store_commit_raises_keeps_writes ==
    /\ sess.pc = "loop"
    /\ sess.i > Len(sess.records)
    /\ flush_raises(db, sess.dirty, sess.new)
    /\ db' = flushed(db, sess.dirty, << >>)
               \o SelectSeq(sess.new, LAMBDA row : numeric_ok(row.quantity))
    /\ sess' = [sess EXCEPT !.pc = "raised"]
    /\ UNCHANGED <<planner, fetcher, orch, prepVars>>

\* Lines 79, 89-92: commit raises; rollback, and the exception is re-raised.
store_commit_raises ==
    /\ sess.pc = "loop"
    /\ sess.i > Len(sess.records)
    /\ flush_raises(db, sess.dirty, sess.new)
    /\ sess' = [sess EXCEPT !.pc = "raised"]
    /\ UNCHANGED <<db, planner, fetcher, orch, prepVars>>

\* Lines 231-240: every row is deleted and the deletion committed.
clear_all_data ==
    /\ sess.pc = "idle"
    /\ db' = EmptyDb
    /\ sess' = [pc |-> "returned", op |-> "clear_all_data",
                deleted_count |-> Len(db), before |-> db]
    /\ UNCHANGED <<planner, fetcher, orch, prepVars>>

\* Mutant: the route deletes whether or not confirm is set.
clear_data_unguarded ==
    /\ sess.pc = "idle"
    /\ \E confirm \in BOOLEAN :
          /\ db' = EmptyDb
          /\ sess' = [pc |-> "returned", op |-> "clear_data",
                      confirm |-> confirm, status_code |-> 200,
                      deleted_count |-> Len(db), before |-> db]
    /\ UNCHANGED <<planner, fetcher, orch, prepVars>>

\* DELETE /clear (data.py 129-151): without confirm the route raises
\* HTTPException 400 before touching the store; with it the route calls
\* clear_all_data and answers with the number of rows deleted.
clear_data ==
    /\ sess.pc = "idle"
    /\ \E confirm \in BOOLEAN :
          IF ~confirm
          THEN /\ db' = db
               /\ sess' = [pc |-> "raised", op |-> "clear_data",
                           confirm |-> FALSE, status_code |-> 400,
                           deleted_count |-> 0, before |-> db]
          ELSE /\ db' = EmptyDb
               /\ sess' = [pc |-> "returned", op |-> "clear_data",
                           confirm |-> TRUE, status_code |-> 200,
                           deleted_count |-> Len(db), before |-> db]
    /\ UNCHANGED <<planner, fetcher, orch, prepVars>>

\* The caller has the result; the session can serve the next call.
session_idle ==
    /\ sess.pc \in {"returned", "raised"}
    /\ sess' = IdleSess
    /\ UNCHANGED <<db, planner, fetcher, orch, prepVars>>

StoreNext ==
    \/ store_records_begin
    \/ store_records_again
    \/ store_record_error
    \/ store_record_update
    \/ store_record_insert
    \/ store_commit
    \/ store_commit_raises
    \/ clear_all_data
    \/ clear_data
    \/ session_idle

SpecStore == StoreInit /\ [][StoreNext]_vars

(***************************************************************************)
(* Raw quality gate: validate_data_quality(data)                           *)
(***************************************************************************)
SAMPLE_SIZE == 100
MaxPad == 101        \* the input has 0..MaxPad complete records in the middle
MaxEdge == 1         \* and 0..MaxEdge arbitrary records before and after them

required_fields == {"settlementDate", "settlementPeriod", "psrType", "quantity"}

\* Mutant: every record is examined.
sample_size_all(data) == Len(data)

\* Line 158: sample_size = min(100, len(data))
sample_size(data) == Min(SAMPLE_SIZE, Len(data))

\* min() of a set of strings, None when the set is empty.
min_date(dates) ==
    IF dates = {} THEN None
    ELSE CHOOSE d \in dates : \A e \in dates : ~LexLess(e.s, d.s)

\* max() of a set of strings, None when the set is empty.
max_date(dates) ==
    IF dates = {} THEN None
    ELSE CHOOSE d \in dates : \A e \in dates : ~LexLess(d.s, e.s)

\* Lines 149-175
validate_data_quality(data) ==
    IF data = << >>
    THEN [status |-> "error", message |-> "No data received"]
    ELSE LET missing_fields ==
                 {field \in required_fields :
                     \E i \in 1..sample_size(data) :
                        field \notin DOMAIN data[i] \/ data[i][field].none}
             fuel_types ==
                 {get(data[i], "psrType") : i \in
                     {j \in 1..Len(data) : Truthy(get(data[j], "psrType"))}}
             dates ==
                 {get(data[i], "settlementDate") : i \in
                     {j \in 1..Len(data) : Truthy(get(data[j], "settlementDate"))}}
         IN  [status |-> "success",
              total_records |-> Len(data),
              fuel_types |-> fuel_types,
              date_range |-> [min |-> min_date(dates), max |-> max_date(dates)],
              missing_fields |-> missing_fields]

D2 == Str(<<2, 0, 2, 4, 0, 1, 0, 2>>)       \* "2024-01-02"
WIND == Str(<<8>>)                          \* "Wind Onshore"

RawFields ==
    {"settlementDate", "settlementPeriod", "psrType", "quantity", "publishTime"}

CompleteRaw == Restrict(CompleteRecord, RawFields)

\* Raw records: complete, with a null quantity as the fetcher maps an
\* omitted one (also of another day and fuel type), or without
\* settlementDate.
QualityPool ==
    {CompleteRaw,
     [CompleteRaw EXCEPT !.quantity = None],
     [CompleteRaw EXCEPT !.settlementDate = D2, !.psrType = WIND,
                         !.quantity = None],
     Restrict(CompleteRaw, RawFields \ {"settlementDate"})}

\* Inputs on both sides of the sample size: a run of complete records with
\* arbitrary records before and after it.
QualityInit ==
    /\ \E head \in SeqsUpTo(QualityPool, MaxEdge),
          pad \in 0..MaxPad,
          tail \in SeqsUpTo(QualityPool, MaxEdge) :
          prep = [pc |-> "input",
                  data |-> head \o [i \in 1..pad |-> CompleteRaw] \o tail]
    /\ planner = NoGenerator
    /\ fetcher = IdleFetcher
    /\ orch = IdleOrch
    /\ db = EmptyDb
    /\ sess = IdleSess
    /\ route = IdleRoute

call_validate_data_quality ==
    /\ prep.pc = "input"
    /\ prep' = [pc |-> "quality_checked", data |-> prep.data,
                report |-> validate_data_quality(prep.data)]
    /\ UNCHANGED <<planner, fetcher, orch, route, storeVars>>

QualityNext == call_validate_data_quality

SpecQuality == QualityInit /\ [][QualityNext]_vars

(***************************************************************************)
(* POST /fetch: fetch_and_store_data and _fetch_and_process_data           *)
(***************************************************************************)
BACKGROUND_AFTER_DAYS == 30
MaxRaw == 2          \* the orchestrator returns 0..MaxRaw records
MaxFailedChunks == 1 \* and counted 0..MaxFailedChunks failed chunks

\* Line 32: date_diff of the request, on both sides of the limit.
RequestDays == {1, BACKGROUND_AFTER_DAYS, BACKGROUND_AFTER_DAYS + 1}

\* Records as the fetcher maps them: complete, republished later with
\* another quantity, with a null publishTime, with a null settlementDate,
\* with a settlementDate that is not a date, with a quantity that is not a
\* number.
PipelinePool ==
    {CompleteRecord,
     [CompleteRecord EXCEPT !.publishTime = T01, !.quantity = Q105],
     [CompleteRecord EXCEPT !.publishTime = None],
     [CompleteRecord EXCEPT !.settlementDate = None],
     [CompleteRecord EXCEPT !.settlementDate = INVALID_DATE],
     [CompleteRecord EXCEPT !.quantity = INVALID_NUMBER]}

\* FetchDataResponse, with the HTTP status of the answer.
Response(status_code, status, fetched, stored, failed) ==
    [status_code |-> status_code, status |-> status,
     records_fetched |-> fetched, records_stored |-> stored,
     failed_chunks |-> failed]

NoResponse == Response(0, "none", 0, 0, 0)

\* Lines 68-70: any exception leaves the route as HTTPException 500.
ErrorResponse == Response(500, "error", 0, 0, 0)

\* Lines 32-49: a request of more than 30 days is answered at once and
\* processed as a background task.  stages and orch_failed_chunks are the
\* run's history: the stages entered, and the failed chunks the
\* orchestrator counted.
NewRequest(date_diff) ==
    [pc |-> "fetch", date_diff |-> date_diff,
     background |-> date_diff > BACKGROUND_AFTER_DAYS,
     response |-> IF date_diff > BACKGROUND_AFTER_DAYS
                  THEN Response(200, "processing", 0, 0, 0)
                  ELSE NoResponse,
     stages |-> << >>, raw_data |-> << >>, orch_failed_chunks |-> 0,
     processed_data |-> << >>, exc_status |-> 0,
     storage_result |-> [inserted |-> 0, updated |-> 0, errors |-> 0],
     result |-> [fetched |-> 0, stored |-> 0, failed_chunks |-> 0],
     db_before |-> db]

route_request ==
    /\ route.pc = "idle"
    /\ \E date_diff \in RequestDays : route' = NewRequest(date_diff)
    /\ UNCHANGED <<planner, fetcher, orch, prep, storeVars>>

\* Lines 157-161: the orchestrator returns its list (its counters are not
\* returned); an empty list raises HTTPException 404.
pipe_fetch ==
    /\ route.pc = "fetch"
    /\ \E raw_data \in SeqsUpTo(PipelinePool, MaxRaw),
          failed \in 0..MaxFailedChunks :
          route' = [route EXCEPT
                       !.stages = Append(@, "fetch"),
                       !.raw_data = raw_data,
                       !.orch_failed_chunks = failed,
                       !.pc = IF raw_data = << >> THEN "raised" ELSE "raw_gate",
                       !.exc_status = IF raw_data = << >> THEN 404 ELSE 0]
    /\ UNCHANGED <<planner, fetcher, orch, prep, storeVars>>

\* Lines 163-166
pipe_raw_gate ==
    /\ route.pc = "raw_gate"
    /\ LET validation_result == validate_data_quality(route.raw_data)
           rejected == validation_result.status = "error"
       IN  route' = [route EXCEPT
                        !.stages = Append(@, "raw_gate"),
                        !.pc = IF rejected THEN "raised" ELSE "process",
                        !.exc_status = IF rejected THEN 400 ELSE 0]
    /\ UNCHANGED <<planner, fetcher, orch, prep, storeVars>>

\* Lines 168-171: deduplicate, then normalize; a TypeError of the sort
\* leaves the function (status 0: not an HTTPException).
pipe_process ==
    /\ route.pc = "process"
    /\ LET deduplicated_data == deduplicate_data(route.raw_data)
       IN  route' =
             IF deduplicated_data.raised
             THEN [route EXCEPT
                      !.stages = Append(@, "deduplicate"),
                      !.pc = "raised"]
             ELSE [route EXCEPT
                      !.stages = @ \o <<"deduplicate", "normalize">>,
                      !.processed_data =
                          handle_missing_fields(deduplicated_data.out),
                      !.pc = "processed_gate"]
    /\ UNCHANGED <<planner, fetcher, orch, prep, storeVars>>

\* Lines 173-176
pipe_processed_gate ==
    /\ route.pc = "processed_gate"
    /\ LET final_validation == validate_processed_data(route.processed_data)
           rejected == final_validation.status # "success"
       IN  route' = [route EXCEPT
                        !.stages = Append(@, "processed_gate"),
                        !.pc = IF rejected THEN "raised" ELSE "store",
                        !.exc_status = IF rejected THEN 400 ELSE 0]
    /\ UNCHANGED <<planner, fetcher, orch, prep, storeVars>>

\* Mutant: the raw records are stored instead of the processed ones.
pipe_store_raw ==
    /\ route.pc = "store"
    /\ sess.pc = "idle"
    /\ route' = [route EXCEPT !.stages = Append(@, "store"), !.pc = "storing"]
    /\ sess' = NewStoreCall(route.raw_data, db)
    /\ UNCHANGED <<planner, fetcher, orch, prep, db>>

\* Line 180: db_ops.store_records(processed_data) is called.
pipe_store ==
    /\ route.pc = "store"
    /\ sess.pc = "idle"
    /\ route' = [route EXCEPT !.stages = Append(@, "store"), !.pc = "storing"]
    /\ sess' = NewStoreCall(route.processed_data, db)
    /\ UNCHANGED <<planner, fetcher, orch, prep, db>>

\* Lines 182-186: the result; failed_chunks is the literal 0.
pipe_store_returned ==
    /\ route.pc = "storing"
    /\ sess.pc = "returned"
    /\ route' = [route EXCEPT
                    !.pc = "returned",
                    !.storage_result = [inserted |-> sess.inserted_count,
                                        updated |-> sess.updated_count,
                                        errors |-> sess.error_count],
                    !.result = [fetched |-> Len(route.raw_data),
                                stored |-> sess.inserted_count
                                              + sess.updated_count,
                                failed_chunks |-> 0]]
    /\ sess' = IdleSess
    /\ UNCHANGED <<planner, fetcher, orch, prep, db>>

\* Lines 188-190: store_records raised; the exception is re-raised.
pipe_store_raised ==
    /\ route.pc = "storing"
    /\ sess.pc = "raised"
    /\ route' = [route EXCEPT !.pc = "raised"]
    /\ sess' = IdleSess
    /\ UNCHANGED <<planner, fetcher, orch, prep, db>>

\* Lines 51-66: the counts of the result are answered; a background task's
\* result goes nowhere.
route_completed ==
    /\ route.pc = "returned"
    /\ route' = [route EXCEPT
                    !.pc = "done",
                    !.response =
                        IF route.background THEN @
                        ELSE Response(200, "completed",
                                      route.result.fetched,
                                      route.result.stored,
                                      route.result.failed_chunks)]
    /\ UNCHANGED <<planner, fetcher, orch, prep, storeVars>>

\* Lines 68-70: `except Exception` catches whatever the pipeline raised,
\* the HTTPException 404 and 400 included, and raises HTTPException 500; a
\* background task's exception goes nowhere.
route_failed ==
    /\ route.pc = "raised"
    /\ route' = [route EXCEPT
                    !.pc = "done",
                    !.response = IF route.background THEN @ ELSE ErrorResponse]
    /\ UNCHANGED <<planner, fetcher, orch, prep, storeVars>>

\* The request is over; the route can serve the next one.
route_idle ==
    /\ route.pc = "done"
    /\ route' = IdleRoute
    /\ UNCHANGED <<planner, fetcher, orch, prep, storeVars>>

PipelineNext ==
    \/ route_request
    \/ pipe_fetch
    \/ pipe_raw_gate
    \/ pipe_process
    \/ pipe_processed_gate
    \/ pipe_store
    \/ store_record_error
    \/ store_record_update
    \/ store_record_insert
    \/ store_commit
    \/ store_commit_raises
    \/ pipe_store_returned
    \/ pipe_store_raised
    \/ route_completed
    \/ route_failed
    \/ route_idle

SpecPipeline == StoreInit /\ [][PipelineNext]_vars

SpecPipelineFair == SpecPipeline /\ WF_vars(PipelineNext)

(***************************************************************************)
(* C1                                                                      *)
(***************************************************************************)
ChunkSpan(c) == (c[2] - c[1]) + 1

\* C1: for start <= end and days >= 1 the chunks yielded by date_chunks are
\* finitely many and, once the generator is exhausted, non-empty; the first
\* starts at start, the last ends at end, every chunk has chunkStart <=
\* chunkEnd and spans at most `days` days, each next chunk starts one day
\* after the previous chunk's end, and only the final chunk may be shorter
\* than `days`.
C1_ChunksCoverRange ==
    planner.start <= planner.end =>
        LET ys == planner.yielded
            n  == Len(ys)
        IN  /\ n <= (planner.end - planner.start) + 1
            /\ n = planner.chunk_count
            /\ n >= 1 => ys[1][1] = planner.start
            /\ \A i \in 1..n :
                  /\ ys[i][1] <= ys[i][2]
                  /\ ChunkSpan(ys[i]) <= planner.days
                  /\ ys[i][2] <= planner.end
            /\ \A i \in 1..(n - 1) :
                  /\ ys[i + 1][1] = ys[i][2] + 1
                  /\ ChunkSpan(ys[i]) = planner.days
            /\ planner.pc = "done" => (n >= 1 /\ ys[n][2] = planner.end)

\* A range that needs several chunks, the last one shorter than `days`.
C1_Witness ==
    /\ planner.pc = "done"
    /\ planner.start <= planner.end
    /\ Len(planner.yielded) >= 3
    /\ ChunkSpan(planner.yielded[Len(planner.yielded)]) < planner.days

(***************************************************************************)
(* C2                                                                      *)
(***************************************************************************)
FetcherCalled == fetcher.pc # "idle"

OversizedCall ==
    FetcherCalled /\ (fetcher.to_dt - fetcher.from_dt) + 1 > 7

\* C2: a call of fetch_single_chunk whose inclusive span exceeds 7 days
\* fails with the range error (ValueError) whoever the caller is: it never
\* returns, issues no HTTP request, makes exactly one attempt and never
\* waits for a retry; and the failure does happen.
C2_OversizedRangeRejected ==
    /\ [](OversizedCall =>
            /\ fetcher.pc \in {"attempt", "raised"}
            /\ fetcher.http_requests = 0
            /\ fetcher.attempt_number = 1
            /\ fetcher.waits = << >>
            /\ fetcher.pc = "raised" => fetcher.error = "ValueError")
    /\ [](OversizedCall => <>(fetcher.pc = "raised"))

\* A direct caller passed an eight-day range and the call has failed.
C2_Witness ==
    /\ FetcherCalled
    /\ fetcher.caller = "direct"
    /\ (fetcher.to_dt - fetcher.from_dt) + 1 = 8
    /\ fetcher.pc = "raised"
    /\ fetcher.error = "ValueError"

(***************************************************************************)
(* C10                                                                     *)
(***************************************************************************)
OrchValidRange ==
    /\ orch.pc # "idle"
    /\ orch.start_date.ok
    /\ orch.end_date.ok
    /\ orch.start_date.day <= orch.end_date.day

FetchCalls == SelectSeq(orch.trace, LAMBDA e : e.ev = "fetch")

C10_Sequential ==
    (OrchValidRange /\ orch.pc # "entry") =>
        LET plan  == date_chunks_all(orch.start_date.day, orch.end_date.day,
                                     MAX_CHUNK_DAYS)
            calls == FetchCalls
            n     == Len(calls)
        IN  /\ orch.pc # "raised"
            /\ n <= Len(plan)
            /\ n = orch.chunk_num
            /\ \A i \in 1..n : calls[i].a = plan[i][1] /\ calls[i].b = plan[i][2]
            /\ orch.pc = "call" =>
                  /\ Len(orch.outcomes) = n - 1
                  /\ FetcherCalled
                  /\ fetcher.from_dt = calls[n].a
                  /\ fetcher.to_dt = calls[n].b
            /\ orch.pc \in {"for", "done"} =>
                  /\ Len(orch.outcomes) = n
                  /\ ~FetcherCalled
            /\ orch.pc = "done" => n = Len(plan)

\* C10: for a valid range the orchestrator calls the fetcher exactly once
\* per planned chunk, one call at a time and in planned order, whatever the
\* earlier chunks' outcomes; a chunk's exception never aborts the call; the
\* call terminates by returning.
C10_AllChunksAttempted ==
    /\ []C10_Sequential
    /\ []((OrchValidRange /\ orch.pc = "entry") => <>(orch.pc = "done"))

\* Three planned chunks, the first two failed (one by exhausting its
\* retries), the third still fetched, and the call returned.
C10_Witness ==
    /\ OrchValidRange
    /\ orch.pc = "done"
    /\ Len(orch.outcomes) = 3
    /\ orch.outcomes[1] = "raised"
    /\ orch.outcomes[2] = "raised"
    /\ orch.outcomes[3] = "data"
    /\ orch.failed_chunks = 2

(***************************************************************************)
(* C3                                                                      *)
(***************************************************************************)
KeysOf(records) == {natural_key(records[i]) : i \in 1..Len(records)}

OnePerKey(input, out) ==
    /\ Len(out) <= Len(input)
    /\ \A i \in 1..Len(out) : \E j \in 1..Len(input) : out[i] = input[j]
    /\ \A k \in KeysOf(input) :
          Cardinality({i \in 1..Len(out) : natural_key(out[i]) = k}) = 1
    /\ input = << >> => out = << >>

\* C3: for any input list deduplicate_data returns a list no longer than
\* the input, made of input records, with exactly one record for each
\* distinct natural key of the input; empty input gives an empty list.
C3_OneRecordPerKey ==
    prep.pc = "deduplicated" =>
        /\ ~prep.raised
        /\ OnePerKey(prep.data, prep.out)

(***************************************************************************)
(* C4                                                                      *)
(***************************************************************************)
\* The publishTime string of a record, absent comparing as "".
PublishString(record) ==
    IF "publishTime" \in DOMAIN record THEN record["publishTime"].s ELSE << >>

NoNullPublishTime(records) ==
    \A i \in 1..Len(records) :
        "publishTime" \in DOMAIN records[i] => ~records[i]["publishTime"].none

\* C4: whenever deduplicate_data returns, the record it keeps for a natural
\* key has the lexicographically greatest publishTime of the records with
\* that key, an absent publishTime comparing as the empty string; and it
\* does return for every input whose publishTime values are strings or
\* absent.
C4_LatestPublishTimeKept ==
    prep.pc = "deduplicated" =>
        /\ NoNullPublishTime(prep.data) => ~prep.raised
        /\ ~prep.raised =>
              \A j \in 1..Len(prep.data) :
                 \E i \in 1..Len(prep.out) :
                    /\ natural_key(prep.out[i]) = natural_key(prep.data[j])
                    /\ ~LexLess(PublishString(prep.out[i]),
                                PublishString(prep.data[j]))

\* The later-published record comes second in the input, after one with an
\* earlier publishTime and one without publishTime, and is the survivor.
C4_Witness ==
    /\ prep.pc = "deduplicated"
    /\ ~prep.raised
    /\ Len(prep.data) = 3
    /\ Len(prep.out) = 1
    /\ "publishTime" \notin DOMAIN prep.data[1]
    /\ PublishString(prep.data[2]) = T01.s
    /\ PublishString(prep.data[3]) = T00.s
    /\ prep.out[1] = prep.data[2]

(***************************************************************************)
(* C5                                                                      *)
(***************************************************************************)
NineKeys ==
    {"publishTime", "businessType", "psrType", "quantity", "startTime",
     "settlementDate", "settlementPeriod", "fuelType", "region"}

HasNonNull(record, key) == key \in DOMAIN record /\ ~record[key].none

\* C5: handle_missing_fields returns a list of the same length and order
\* in which every record has all nine expected keys, each with the input
\* value when the input has it non-null and null otherwise; every other
\* input key is carried over unchanged; a record with all nine fields
\* non-null comes out equal to itself; empty input gives empty output.
C5_NormalizerSchema ==
    prep.pc = "normalized" =>
        /\ Len(prep.out) = Len(prep.data)
        /\ \A i \in 1..Len(prep.data) :
              LET in  == prep.data[i]
                  out == prep.out[i]
              IN  /\ NineKeys \subseteq DOMAIN out
                  /\ DOMAIN in \subseteq DOMAIN out
                  /\ \A key \in NineKeys :
                        out[key] = IF HasNonNull(in, key) THEN in[key] ELSE None
                  /\ \A key \in DOMAIN in \ NineKeys : out[key] = in[key]
                  /\ (\A key \in NineKeys : HasNonNull(in, key)) => out = in

\* Two records: a complete one carrying an extra field, which comes out
\* unchanged, and a partial one whose missing fields come out null.
C5_Witness ==
    /\ prep.pc = "normalized"
    /\ Len(prep.data) = 2
    /\ \A key \in NineKeys : HasNonNull(prep.data[1], key)
    /\ HasNonNull(prep.data[1], "extraField")
    /\ prep.out[1] = prep.data[1]
    /\ DOMAIN prep.data[2] = {"settlementDate", "psrType", "quantity"}
    /\ prep.data[2]["quantity"].none
    /\ prep.out[2]["region"] = None
    /\ prep.out[2]["settlementDate"] = D1

(***************************************************************************)
(* C6                                                                      *)
(***************************************************************************)
CompleteCount(data) ==
    Cardinality({i \in 1..Len(data) :
        \A key \in {"settlementDate", "settlementPeriod", "psrType", "quantity"} :
            HasNonNull(data[i], key)})

\* C6: for non-empty input the reported data_quality_score is the
\* hundredth nearest to (complete records) / total * 100: 2 of 3 gives
\* 66.67, 1 of 3 gives 33.33, 1 of 2 gives 50.0, 0 of 1 gives 0.0 and all
\* complete gives 100.0.
C6_QualityScore ==
    (prep.pc = "validated" /\ prep.data # << >>) =>
        LET total    == Len(prep.data)
            complete == CompleteCount(prep.data)
            score    == prep.report.data_quality_score
            diff     == score * total - 10000 * complete
        IN  /\ 2 * diff <= total
            /\ 2 * diff >= 0 - total
            /\ prep.report.records_with_missing_critical = total - complete
            /\ (total = 3 /\ complete = 2) => score = 6667
            /\ (total = 3 /\ complete = 1) => score = 3333
            /\ (total = 2 /\ complete = 1) => score = 5000
            /\ (total = 1 /\ complete = 0) => score = 0
            /\ complete = total => score = 10000

\* Three records, two of them complete: the score is 66.67.
C6_Witness ==
    /\ prep.pc = "validated"
    /\ Len(prep.data) = 3
    /\ CompleteCount(prep.data) = 2
    /\ prep.report.data_quality_score = 6667

(***************************************************************************)
(* C7                                                                      *)
(***************************************************************************)
\* C7: validate_processed_data returns status "error" with the message
\* "No data to validate" exactly when its input is empty, and status
\* "success" with record_count equal to the input length for every
\* non-empty input, however many records miss critical fields.
C7_ErrorOnlyWhenEmpty ==
    prep.pc = "validated" =>
        /\ prep.report.status = "error" <=> prep.data = << >>
        /\ prep.data = << >> => prep.report.message = "No data to validate"
        /\ prep.data # << >> =>
              /\ prep.report.status = "success"
              /\ prep.report.record_count = Len(prep.data)

\* Every record of a non-empty input misses a critical field, and the
\* status is still success.
C7_Witness ==
    /\ prep.pc = "validated"
    /\ Len(prep.data) = 2
    /\ CompleteCount(prep.data) = 0
    /\ prep.report.status = "success"
    /\ prep.report.record_count = 2

(***************************************************************************)
(* C8                                                                      *)
(***************************************************************************)
StoreFinished ==
    sess.pc \in {"returned", "raised"} /\ sess.op = "store_records"

UnparseableDate(record) ==
    "settlementDate" \in DOMAIN record
        /\ record["settlementDate"] = INVALID_DATE

NonNumericQuantity(record) ==
    "quantity" \in DOMAIN record /\ record["quantity"] = INVALID_NUMBER

Malformed(record) == UnparseableDate(record) \/ NonNumericQuantity(record)

MalformedCount(records) ==
    Cardinality({i \in 1..Len(records) : Malformed(records[i])})

\* C8: when a batch contains a malformed record (unparseable settlementDate
\* or non-numeric quantity) store_records returns without raising, errors
\* counts exactly the malformed records, no row is inserted or updated for
\* them, and every well-formed record of the batch is inserted or updated
\* and committed.
C8_MalformedRecordSkipped ==
    (StoreFinished /\ MalformedCount(sess.records) > 0) =>
        /\ sess.pc = "returned"
        /\ sess.error_count = MalformedCount(sess.records)
        /\ sess.inserted_count + sess.updated_count =
              Len(sess.records) - MalformedCount(sess.records)
        /\ Len(db) = Len(sess.before) + sess.inserted_count
        /\ \A id \in 1..Len(db) : db[id].quantity # INVALID_NUMBER
        /\ \A i \in 1..Len(sess.records) :
              ~Malformed(sess.records[i]) =>
                 \E id \in 1..Len(db) : query_matches(db[id], sess.records[i])

(***************************************************************************)
(* C9                                                                      *)
(***************************************************************************)
RowKey(row) == <<row.settlement_date, row.settlement_period, row.psr_type>>

\* C9: after any sequence of store_records and clear_all_data calls the
\* store holds at most one record per natural key (settlement_date,
\* settlement_period, psr_type).
C9_OneRowPerKey ==
    \A id1, id2 \in 1..Len(db) :
        id1 # id2 => RowKey(db[id1]) # RowKey(db[id2])

(***************************************************************************)
(* Two store_records calls in separate sessions                            *)
(*                                                                         *)
(* Every request gets its own session (connection.py:60-65) on its own     *)
(* pooled connection (connection.py:36-41).  With autoflush off each call  *)
(* writes only inside session.commit(), so a commit is one step; the       *)
(* existence query of a call reads the rows committed so far.  sess holds  *)
(* the two calls while they run.                                           *)
(***************************************************************************)
MaxConcurrentBatch == 2   \* each of the two batches has 1..MaxConcurrentBatch records

Calls == {1, 2}

\* Normalised records of two natural keys, with a null settlementDate and
\* with a settlementDate that is not a date.
ConcurrentPool ==
    {CompleteRecord,
     [CompleteRecord EXCEPT !.psrType = WIND, !.fuelType = WIND,
                            !.quantity = Q105],
     [CompleteRecord EXCEPT !.settlementDate = None],
     [CompleteRecord EXCEPT !.settlementDate = INVALID_DATE]}

\* Lines 40-46 on both sides: the two records name the same row.
same_natural_key(record1, record2) ==
    /\ ~record_raises(record1)
    /\ ~record_raises(record2)
    /\ query_matches(new_record(record1), record2)

\* Two ingestion calls over overlapping ranges: their batches share a key.
overlapping(records1, records2) ==
    \E i \in 1..Len(records1), j \in 1..Len(records2) :
        same_natural_key(records1[i], records2[j])

\* Lines 14-23: a call on entry; loaded holds the rows its queries returned
\* as they were when first read.
ConcurrentCall(records) ==
    [pc |-> "loop", records |-> records, i |-> 1,
     inserted_count |-> 0, updated_count |-> 0, error_count |-> 0,
     new |-> << >>, dirty |-> << >>, loaded |-> << >>]

\* The two requests arrive; each gets a session and calls store_records.
concurrent_begin ==
    /\ sess.pc = "idle"
    /\ \E records1, records2 \in SeqsUpTo(ConcurrentPool, MaxConcurrentBatch) :
          /\ overlapping(records1, records2)
          /\ sess' = [pc |-> "concurrent",
                      calls |-> <<ConcurrentCall(records1),
                                  ConcurrentCall(records2)>>]
    /\ UNCHANGED <<db, planner, fetcher, orch, prepVars>>

ConcurrentRunning(c) ==
    /\ sess.pc = "concurrent"
    /\ sess.calls[c].pc = "loop"

\* Lines 25-37, 74-77 in call c.
concurrent_record_error(c) ==
    /\ ConcurrentRunning(c)
    /\ LET call == sess.calls[c]
       IN  /\ call.i <= Len(call.records)
           /\ record_raises(call.records[call.i])
           /\ sess' = [sess EXCEPT !.calls[c].error_count = @ + 1,
                                   !.calls[c].i = @ + 1]
    /\ UNCHANGED <<db, planner, fetcher, orch, prepVars>>

\* Lines 39-57 in call c: the query finds a committed row.
concurrent_record_update(c) ==
    /\ ConcurrentRunning(c)
    /\ LET call == sess.calls[c]
       IN  /\ call.i <= Len(call.records)
           /\ ~record_raises(call.records[call.i])
           /\ \E id \in 1..Len(db) :
                 /\ query_matches(db[id], call.records[call.i])
                 /\ LET first_read == IF id \in DOMAIN call.loaded
                                      THEN call.loaded[id] ELSE db[id]
                        existing == IF id \in DOMAIN call.dirty
                                    THEN call.dirty[id] ELSE db[id]
                        row == updated_record(existing, call.records[call.i])
                    IN  sess' = [sess EXCEPT
                           !.calls[c].loaded =
                               [k \in DOMAIN @ \cup {id} |->
                                   IF k = id THEN first_read ELSE @[k]],
                           !.calls[c].dirty =
                               [k \in DOMAIN @ \cup {id} |->
                                   IF k = id THEN row ELSE @[k]],
                           !.calls[c].updated_count = @ + 1,
                           !.calls[c].i = @ + 1]
    /\ UNCHANGED <<db, planner, fetcher, orch, prepVars>>

\* Lines 39-48, 58-72 in call c: the query finds no committed row.
concurrent_record_insert(c) ==
    /\ ConcurrentRunning(c)
    /\ LET call == sess.calls[c]
       IN  /\ call.i <= Len(call.records)
           /\ ~record_raises(call.records[call.i])
           /\ ~\E id \in 1..Len(db) : query_matches(db[id], call.records[call.i])
           /\ sess' = [sess EXCEPT
                          !.calls[c].new = Append(@, new_record(call.records[call.i])),
                          !.calls[c].inserted_count = @ + 1,
                          !.calls[c].i = @ + 1]
    /\ UNCHANGED <<db, planner, fetcher, orch, prepVars>>

\* The UPDATE of a row sets the attributes the call changed; the others
\* keep what is committed.
changed_attributes(committed, first_read, row) ==
    [f \in DOMAIN committed |->
        IF row[f] # first_read[f] THEN row[f] ELSE committed[f]]

\* The table after the flush of a call.
concurrent_flushed(table, call) ==
    [id \in 1..Len(table) |->
        IF id \in DOMAIN call.dirty
        THEN changed_attributes(table[id], call.loaded[id], call.dirty[id])
        ELSE table[id]] \o call.new

\* Line 79: the flush of the call's commit raises.
concurrent_flush_raises(table, call) ==
    LET after == concurrent_flushed(table, call)
    IN  \/ \E id \in 1..Len(after) : ~numeric_ok(after[id].quantity)
        \/ \E id1, id2 \in 1..Len(after) :
              id1 < id2 /\ unique_conflict(after[id1], after[id2])

\* Lines 79-87 in call c.
concurrent_commit(c) ==
    /\ ConcurrentRunning(c)
    /\ LET call == sess.calls[c]
       IN  /\ call.i > Len(call.records)
           /\ ~concurrent_flush_raises(db, call)
           /\ db' = concurrent_flushed(db, call)
    /\ sess' = [sess EXCEPT !.calls[c].pc = "returned"]
    /\ UNCHANGED <<planner, fetcher, orch, prepVars>>

\* Lines 79, 89-92 in call c: IntegrityError, rollback, re-raise.
concurrent_commit_raises(c) ==
    /\ ConcurrentRunning(c)
    /\ LET call == sess.calls[c]
       IN  /\ call.i > Len(call.records)
           /\ concurrent_flush_raises(db, call)
    /\ sess' = [sess EXCEPT !.calls[c].pc = "raised"]
    /\ UNCHANGED <<db, planner, fetcher, orch, prepVars>>

ConcurrentNext ==
    \/ concurrent_begin
    \/ \E c \in Calls : concurrent_record_error(c)
    \/ \E c \in Calls : concurrent_record_update(c)
    \/ \E c \in Calls : concurrent_record_insert(c)
    \/ \E c \in Calls : concurrent_commit(c)
    \/ \E c \in Calls : concurrent_commit_raises(c)

SpecConcurrent == StoreInit /\ [][ConcurrentNext]_vars

(***************************************************************************)
(* C11                                                                     *)
(***************************************************************************)
RECURSIVE Flatten(_)
Flatten(lists) ==
    IF lists = << >> THEN << >> ELSE Head(lists) \o Flatten(Tail(lists))

RECURSIVE SumLen(_)
SumLen(lists) ==
    IF lists = << >> THEN 0 ELSE Len(Head(lists)) + SumLen(Tail(lists))

\* The lists handed back by the chunk fetches that did not raise, in the
\* order the chunks were fetched.
ReturnedLists ==
    [i \in 1..Len(orch.fetched) |->
        IF orch.outcomes[i] = "raised" THEN << >> ELSE orch.fetched[i]]

\* C11: the list fetch_generation_data returns is the concatenation, in
\* planned chunk order, of the record lists returned by the chunk fetches
\* that did not raise: its length is the sum of their lengths, it holds no
\* record of a failed chunk and no record twice.
C11_ConcatenationOfChunks ==
    (OrchValidRange /\ orch.pc = "done") =>
        LET plan == date_chunks_all(orch.start, orch.end, MAX_CHUNK_DAYS)
        IN  /\ Len(orch.fetched) = Len(plan)
            /\ \A i \in 1..Len(plan) :
                  \A j \in 1..Len(orch.fetched[i]) :
                     orch.fetched[i][j][1] = plan[i][1]
            /\ orch.all_data = Flatten(ReturnedLists)
            /\ Len(orch.all_data) = SumLen(ReturnedLists)
            /\ \A i \in 1..Len(plan) :
                  orch.outcomes[i] = "raised" =>
                     \A j \in 1..Len(orch.all_data) :
                        orch.all_data[j][1] # plan[i][1]
            /\ \A j, k \in 1..Len(orch.all_data) :
                  j # k => orch.all_data[j] # orch.all_data[k]

\* Three chunks: records, a failure, records; the result holds the first
\* chunk's records followed by the third's.
C11_Witness ==
    /\ OrchValidRange
    /\ orch.pc = "done"
    /\ orch.outcomes = <<"data", "raised", "data">>
    /\ Len(orch.fetched[1]) = 2
    /\ Len(orch.fetched[3]) = 1
    /\ Len(orch.all_data) = 3
    /\ orch.all_data[3] = orch.fetched[3][1]

(***************************************************************************)
(* C12                                                                     *)
(***************************************************************************)
\* The events of a call that planned n chunks, with one sleep between every
\* two consecutive fetches and none after the last.
SleepsBetweenFetches(trace, n) ==
    /\ Len(trace) = 2 * n - 1
    /\ \A i \in 1..Len(trace) :
          IF i % 2 = 1
          THEN trace[i].ev = "fetch"
          ELSE trace[i] = SleepEvent(i \div 2)

\* C12: fetch_generation_data sleeps the fixed delay exactly once between
\* the fetches of every two consecutive planned chunks and not after the
\* final chunk, whatever the chunks' outcomes (records, an empty list or an
\* exception), the final chunk being number ceil(total_days / 6).
C12_SleepBetweenChunks ==
    (OrchValidRange /\ orch.pc = "done") =>
        SleepsBetweenFetches(orch.trace,
            (orch.total_days + MAX_CHUNK_DAYS - 1) \div MAX_CHUNK_DAYS)

(***************************************************************************)
(* C13                                                                     *)
(***************************************************************************)
NetworkOrStatusError(f) == f.exc \in {"RequestError", "HTTPStatusError"}

C13_RetryDiscipline ==
    (FetcherCalled /\ ~OversizedCall) =>
        LET failed == Len(fetcher.failures)
        IN  /\ fetcher.http_requests <= 3
            /\ fetcher.http_requests =
                  IF fetcher.pc = "returned" THEN failed + 1 ELSE failed
            /\ \A i \in 1..(fetcher.http_requests - 1) :
                  NetworkOrStatusError(fetcher.failures[i])
            /\ fetcher.pc = "returned" =>
                  /\ fetcher.error = "none"
                  /\ fetcher.data =
                        TransformedData(fetcher.from_dt, Len(fetcher.data))
            /\ (failed = 3 /\ NetworkOrStatusError(fetcher.failures[3])) =>
                  /\ fetcher.pc = "raised"
                  /\ fetcher.error = "RetryError"
            /\ Len(fetcher.waits) = fetcher.attempt_number - 1
            /\ \A i \in 1..Len(fetcher.waits) :
                  fetcher.waits[i] >= 4 /\ fetcher.waits[i] <= 10

\* C13: a call of fetch_single_chunk on a range of at most 7 days issues
\* at most 3 HTTP requests, a further one only after the previous one
\* failed with a network or HTTP-status error; it returns the mapped
\* records of the first successful request; after a third consecutive such
\* failure it stops and raises; every wait before a retry is between 4 and
\* 10 seconds; and the call ends.
C13_AtMostThreeRequests ==
    /\ []C13_RetryDiscipline
    /\ [](fetcher.pc \in {"attempt", "wait"} =>
             <>(fetcher.pc \in {"returned", "raised"}))

\* Three requests, each failed with a retried error, two waits, and the
\* call raised.
C13_Witness ==
    /\ FetcherCalled
    /\ ~OversizedCall
    /\ fetcher.pc = "raised"
    /\ fetcher.error = "RetryError"
    /\ fetcher.http_requests = 3
    /\ Len(fetcher.waits) = 2

(***************************************************************************)
(* C20                                                                     *)
(***************************************************************************)
\* A failure that another request cannot cure: the upstream rejected the
\* request itself (a 4xx status), or the response body cannot be parsed.
NonTransientFailure(f) ==
    \/ f.status = "4xx"
    \/ f.exc = "Exception"

\* C20: a non-transient failure of a chunk fetch (a request the upstream
\* rejects as malformed, an oversized range, an unparseable response body)
\* is not retried: the request that failed so is made once and is the
\* call's last, no wait follows it, and the call raises.
C20_NonTransientNotRetried ==
    /\ OversizedCall =>
          /\ fetcher.pc \in {"attempt", "raised"}
          /\ fetcher.attempt_number = 1
    /\ (FetcherCalled /\ ~OversizedCall) =>
          \A i \in 1..Len(fetcher.failures) :
              NonTransientFailure(fetcher.failures[i]) =>
                  /\ fetcher.pc = "raised"
                  /\ i = Len(fetcher.failures)
                  /\ fetcher.http_requests = i
                  /\ fetcher.attempt_number = i
                  /\ Len(fetcher.waits) = i - 1

(***************************************************************************)
(* C14                                                                     *)
(***************************************************************************)
\* C14: date_chunks called with start after end fails with an
\* invalid-range error instead of producing a sequence of chunks: the
\* generator never ends normally.
C14_InvertedRangeRejected ==
    (planner.pc \in {"run", "done"} /\ planner.start > planner.end) =>
        planner.pc # "done"

(***************************************************************************)
(* C15                                                                     *)
(***************************************************************************)
OrchInvertedRange ==
    /\ orch.pc # "idle"
    /\ orch.start_date.ok
    /\ orch.end_date.ok
    /\ orch.start_date.day > orch.end_date.day

\* C15: fetch_generation_data called with two well-formed dates of which
\* the start is after the end fails at once with the invalid-range error
\* (ValueError): no chunk is planned, no fetch is attempted, no sleep is
\* made, nothing is counted or collected, and the error is raised to the
\* caller rather than swallowed or retried.
C15_InvertedRangeFailsFast ==
    /\ [](OrchInvertedRange =>
            /\ orch.pc \in {"entry", "raised"}
            /\ orch.pc = "raised" => orch.error = "ValueError"
            /\ planner = NoGenerator
            /\ fetcher = IdleFetcher
            /\ orch.trace = << >>
            /\ orch.chunk_num = 0
            /\ orch.all_data = << >>
            /\ orch.successful_chunks = 0
            /\ orch.failed_chunks = 0)
    /\ [](OrchInvertedRange => <>(orch.pc = "raised"))

\* The call on a start date after the end date has raised.
C15_Witness ==
    /\ OrchInvertedRange
    /\ orch.pc = "raised"
    /\ orch.error = "ValueError"
    /\ orch.start_date.day = orch.end_date.day + 1

(***************************************************************************)
(* C19                                                                     *)
(***************************************************************************)
\* The number of chunks of the call whose fetch ended in one of the kinds.
ChunksEnding(kinds) ==
    Cardinality({i \in 1..Len(orch.outcomes) : orch.outcomes[i] \in kinds})

PlannedChunks ==
    Len(date_chunks_all(orch.start, orch.end, MAX_CHUNK_DAYS))

\* C19 as stated: when fetch_generation_data completes, failed_chunks is
\* the number of chunks whose fetch raised, successful_chunks the number
\* whose fetch returned without raising, an empty list included, and the
\* two add up to the number of planned chunks.
C19_EveryChunkCounted ==
    (OrchValidRange /\ orch.pc = "done") =>
        /\ orch.failed_chunks = ChunksEnding({"raised"})
        /\ orch.successful_chunks = ChunksEnding({"data", "empty"})
        /\ orch.successful_chunks + orch.failed_chunks = PlannedChunks

\* C19 amended: when fetch_generation_data completes, failed_chunks is the
\* number of chunks whose fetch raised and successful_chunks the number
\* whose fetch returned a non-empty list; a chunk whose fetch returned an
\* empty list is counted in neither, so the two add up to the number of
\* planned chunks less the chunks that returned an empty list.
C19_NonEmptyChunksCounted ==
    (OrchValidRange /\ orch.pc = "done") =>
        /\ Len(orch.outcomes) = PlannedChunks
        /\ orch.failed_chunks = ChunksEnding({"raised"})
        /\ orch.successful_chunks = ChunksEnding({"data"})
        /\ orch.successful_chunks + orch.failed_chunks =
              PlannedChunks - ChunksEnding({"empty"})

\* A completed call of three chunks: one with records, one empty, one
\* failed; one chunk is counted successful and one failed.
C19_Witness ==
    /\ OrchValidRange
    /\ orch.pc = "done"
    /\ orch.outcomes = <<"data", "empty", "raised">>
    /\ orch.successful_chunks = 1
    /\ orch.failed_chunks = 1

(***************************************************************************)
(* C17                                                                     *)
(***************************************************************************)
\* Every row of the store is still there, under the same key.
RowsKept ==
    /\ Len(db') >= Len(db)
    /\ \A id \in 1..Len(db) : RowKey(db'[id]) = RowKey(db[id])

\* The step is the bulk clear: clear_all_data itself, or the route called
\* with confirm = true.
ExplicitClear ==
    /\ sess.pc = "idle"
    /\ sess'.pc = "returned"
    /\ \/ sess'.op = "clear_all_data"
       \/ sess'.op = "clear_data" /\ sess'.confirm

UnconfirmedClear ==
    sess.pc # "idle" /\ sess.op = "clear_data" /\ ~sess.confirm

\* C17: stored rows are removed only by the explicit bulk clear: no step
\* of store_records removes a row or lowers the row count, and the clear
\* route deletes only when called with confirm = true; without it the
\* route answers 400 and the store is as it was.
C17_RemovedOnlyByExplicitClear ==
    /\ [][ExplicitClear \/ RowsKept]_vars
    /\ [](StoreFinished => Len(db) >= Len(sess.before))
    /\ [](UnconfirmedClear =>
            /\ sess.pc = "raised"
            /\ sess.status_code = 400
            /\ db = sess.before)

\* The route was called without confirm on a store that holds rows, and
\* they are all still there.
C17_Witness ==
    /\ UnconfirmedClear
    /\ sess.status_code = 400
    /\ Len(db) >= 2
    /\ db = sess.before

(***************************************************************************)
(* C18                                                                     *)
(***************************************************************************)
StoreCall == sess.pc # "idle" /\ sess.op = "store_records"

\* Every pending change of the call is in the store and nothing else
\* changed.
AllCommitted ==
    /\ Len(db) = Len(sess.before) + Len(sess.new)
    /\ \A id \in 1..Len(sess.before) :
          db[id] = IF id \in DOMAIN sess.dirty
                   THEN sess.dirty[id] ELSE sess.before[id]
    /\ \A k \in 1..Len(sess.new) : db[Len(sess.before) + k] = sess.new[k]

\* C18: a store_records batch is one transaction that commits all or
\* nothing: until the commit the store is as it was before the call; when
\* the call returns every pending insert and update is committed; whenever
\* the call raises (a failure at commit, not handled per record) the
\* transaction is rolled back and the store is exactly as before the call.
C18_BatchAllOrNothing ==
    StoreCall =>
        /\ sess.pc = "loop" => db = sess.before
        /\ sess.pc = "returned" => AllCommitted
        /\ sess.pc = "raised" => db = sess.before

\* The call raised at commit with an update and an insert pending on a
\* store that held a row; the row is as it was and nothing was added.
C18_Witness ==
    /\ StoreCall
    /\ sess.pc = "raised"
    /\ sess.updated_count = 1
    /\ sess.inserted_count = 1
    /\ Len(sess.before) >= 1
    /\ \E id \in DOMAIN sess.dirty : sess.dirty[id] # sess.before[id]
    /\ db = sess.before

(***************************************************************************)
(* C16                                                                     *)
(***************************************************************************)
\* The natural key a record is looked up and stored under.
RecordKey(record) == RowKey(new_record(record))

WellFormedDistinct(records) ==
    /\ records # << >>
    /\ \A i \in 1..Len(records) : ~Malformed(records[i])
    /\ \A i, j \in 1..Len(records) :
          i # j => RecordKey(records[i]) # RecordKey(records[j])

KeyStored(table, record) ==
    \E id \in 1..Len(table) : RowKey(table[id]) = RecordKey(record)

\* One call on a batch of well-formed records with distinct keys: a record
\* whose key is not stored adds one row and is counted inserted, a record
\* whose key is stored overwrites a row of that key and is counted updated.
UpsertByKey ==
    LET fresh == {i \in 1..Len(sess.records) :
                     ~KeyStored(sess.before, sess.records[i])}
    IN  /\ sess.pc = "returned"
        /\ sess.error_count = 0
        /\ sess.inserted_count = Cardinality(fresh)
        /\ sess.updated_count = Len(sess.records) - Cardinality(fresh)
        /\ Len(db) = Len(sess.before) + Cardinality(fresh)
        /\ \A i \in 1..Len(sess.records) :
              \E id \in 1..Len(db) :
                 /\ db[id] = IF id <= Len(sess.before)
                             THEN updated_record(sess.before[id], sess.records[i])
                             ELSE new_record(sess.records[i])
                 /\ RowKey(db[id]) = RecordKey(sess.records[i])
                 /\ (i \in fresh) = (id > Len(sess.before))

\* The second call on the same batch: nothing inserted, every record
\* updated, and the rows are what they were after the first call.
SecondStoreChangesNothing ==
    /\ sess.pc = "returned"
    /\ sess.inserted_count = 0
    /\ sess.updated_count = Len(sess.records)
    /\ Len(db) = Len(sess.before)
    /\ db = sess.before

\* C16: store_records is an idempotent upsert keyed by the natural key: in
\* a batch of well-formed records with distinct keys a record whose key is
\* not stored creates one row (inserted) and one whose key is stored
\* overwrites that row in place (updated) and creates none; storing the
\* same batch a second time reports inserted = 0 and updated = batch size
\* and leaves the row count and the rows' data fields unchanged.
C16_IdempotentUpsert ==
    (StoreFinished /\ WellFormedDistinct(sess.records)) =>
        /\ UpsertByKey
        /\ "first" \in DOMAIN sess => SecondStoreChangesNothing

(***************************************************************************)
(* C22                                                                     *)
(***************************************************************************)
\* Records as fetch_single_chunk maps them: every key is present, with
\* None for what the upstream omitted.
FetcherShaped(records) ==
    \A i \in 1..Len(records) : DOMAIN records[i] = DedupFields

\* C22: deduplicate_data never raises on records produced by the fetcher:
\* when records sharing a natural key include one whose publishTime is
\* null, the call completes and treats null as oldest, keeping a record
\* with a non-null publishTime if the group has one.
C22_NullPublishTimeIsOldest ==
    (prep.pc = "deduplicated" /\ FetcherShaped(prep.data)) =>
        /\ ~prep.raised
        /\ \A j \in 1..Len(prep.data) :
              ~prep.data[j]["publishTime"].none =>
                 \E i \in 1..Len(prep.out) :
                    /\ natural_key(prep.out[i]) = natural_key(prep.data[j])
                    /\ ~prep.out[i]["publishTime"].none

(***************************************************************************)
(* C23                                                                     *)
(***************************************************************************)
\* The position at which a natural key first occurs in the records.
FirstIndex(records, key) ==
    CHOOSE i \in 1..Len(records) :
        /\ natural_key(records[i]) = key
        /\ \A j \in 1..(i - 1) : natural_key(records[j]) # key

DistinctKeys(records) ==
    \A i, j \in 1..Len(records) :
        i # j => natural_key(records[i]) # natural_key(records[j])

\* C23: deduplicate_data emits its survivors in the order in which their
\* natural keys first occur in the input; an input in which no two records
\* share a natural key comes out as it went in; and deduplicating the
\* result again changes nothing.
C23_FirstOccurrenceOrder ==
    prep.pc = "deduplicated" =>
        /\ DistinctKeys(prep.data) =>
              ~prep.raised /\ prep.out = prep.data
        /\ ~prep.raised =>
              /\ \A i, j \in 1..Len(prep.out) :
                    i < j =>
                       FirstIndex(prep.data, natural_key(prep.out[i]))
                          < FirstIndex(prep.data, natural_key(prep.out[j]))
              /\ deduplicate_data(prep.out) =
                    [raised |-> FALSE, out |-> prep.out]

\* Three records, the first and the third under one key and the second
\* under another: two survivors, the first key's before the second's.
C23_Witness ==
    /\ prep.pc = "deduplicated"
    /\ ~prep.raised
    /\ Len(prep.data) = 3
    /\ natural_key(prep.data[1]) = natural_key(prep.data[3])
    /\ natural_key(prep.data[1]) # natural_key(prep.data[2])
    /\ Len(prep.out) = 2
    /\ natural_key(prep.out[1]) = natural_key(prep.data[1])
    /\ prep.out[2] = prep.data[2]

(***************************************************************************)
(* C24                                                                     *)
(***************************************************************************)
\* The record at position m is the first of its key with the greatest
\* publishTime string of that key.
FirstOfGreatest(records, m) ==
    \A j \in 1..Len(records) :
        natural_key(records[j]) = natural_key(records[m]) =>
            /\ ~LexLess(PublishString(records[m]), PublishString(records[j]))
            /\ j < m =>
                  LexLess(PublishString(records[j]), PublishString(records[m]))

C24_FirstOfTiesKept ==
    prep.pc = "deduplicated" =>
        /\ NoNullPublishTime(prep.data) => ~prep.raised
        /\ ~prep.raised =>
              \A i \in 1..Len(prep.out) :
                 \E m \in 1..Len(prep.data) :
                    /\ prep.out[i] = prep.data[m]
                    /\ FirstOfGreatest(prep.data, m)

\* C24: when several records sharing a natural key have the same greatest
\* publishTime string, deduplicate_data keeps the one that occurs first in
\* the input; and the call leaves the input list as it was.
C24_DeterministicOnTies ==
    /\ []C24_FirstOfTiesKept
    /\ [][prep.pc = "input" => prep'.data = prep.data]_vars

\* Two different records with the same key and the same publishTime,
\* after one published earlier: the first of the two is kept.
C24_Witness ==
    /\ prep.pc = "deduplicated"
    /\ ~prep.raised
    /\ Len(prep.data) = 3
    /\ Len(prep.out) = 1
    /\ PublishString(prep.data[1]) = T00.s
    /\ PublishString(prep.data[2]) = T01.s
    /\ PublishString(prep.data[3]) = T01.s
    /\ prep.data[2] # prep.data[3]
    /\ prep.out[1] = prep.data[2]

(***************************************************************************)
(* C25                                                                     *)
(***************************************************************************)
FourCriticalFields ==
    {"settlementDate", "settlementPeriod", "psrType", "quantity"}

\* The number of records in which the field is null or absent.
NullCount(records, field) ==
    Cardinality({i \in 1..Len(records) :
                    field \notin DOMAIN records[i] \/ records[i][field].none})

\* C25: in validate_processed_data a record with one or more null critical
\* fields counts exactly once in records_with_missing_critical, so that
\* value is at least the largest per-field missing count and at most the
\* smaller of the record count and the sum of the per-field counts;
\* missing_stats has an entry exactly for the critical fields null in at
\* least one record, with that number of records as count and
\* count / total * 100 as percentage.
C25_MissingCountedOncePerRecord ==
    (prep.pc = "validated" /\ prep.data # << >>) =>
        LET data   == prep.data
            report == prep.report
            m      == report.records_with_missing_critical
        IN  /\ m = Cardinality({i \in 1..Len(data) :
                       \E field \in FourCriticalFields :
                          NullCount(<<data[i]>>, field) = 1})
            /\ \A field \in FourCriticalFields : m >= NullCount(data, field)
            /\ m <= Len(data)
            /\ m <= NullCount(data, "settlementDate")
                      + NullCount(data, "settlementPeriod")
                      + NullCount(data, "psrType")
                      + NullCount(data, "quantity")
            /\ DOMAIN report.missing_stats =
                  {field \in FourCriticalFields : NullCount(data, field) > 0}
            /\ \A field \in DOMAIN report.missing_stats :
                  /\ report.missing_stats[field].count = NullCount(data, field)
                  /\ report.missing_stats[field].percentage =
                        <<NullCount(data, field) * 100, Len(data)>>

\* Three records: one complete, one without quantity, one without
\* quantity and settlementDate; two records are counted, not three nulls.
C25_Witness ==
    /\ prep.pc = "validated"
    /\ Len(prep.data) = 3
    /\ NullCount(prep.data, "quantity") = 2
    /\ NullCount(prep.data, "settlementDate") = 1
    /\ prep.report.records_with_missing_critical = 2
    /\ DOMAIN prep.report.missing_stats = {"quantity", "settlementDate"}

(***************************************************************************)
(* C28                                                                     *)
(***************************************************************************)
\* C28: for every batch on which store_records returns, each record is
\* counted in exactly one of inserted, updated and errors, so the three
\* add up to the batch length (all 0 for an empty batch), and the store
\* holds as many rows as before the call plus inserted.
C28_CountersPartitionBatch ==
    (StoreCall /\ sess.pc = "returned") =>
        /\ sess.inserted_count + sess.updated_count + sess.error_count
              = Len(sess.records)
        /\ sess.inserted_count >= 0
        /\ sess.updated_count >= 0
        /\ sess.error_count >= 0
        /\ Len(db) = Len(sess.before) + sess.inserted_count

\* A returned batch of two on a store that held a row: one record was
\* skipped as an error, the other updated the row.
C28_Witness ==
    /\ StoreCall
    /\ sess.pc = "returned"
    /\ Len(sess.records) = 2
    /\ sess.error_count = 1
    /\ sess.updated_count = 1
    /\ Len(db) = 1

(***************************************************************************)
(* C21                                                                     *)
(***************************************************************************)
\* The field is absent or null in the record.
FieldMissing(record, field) ==
    field \notin DOMAIN record \/ record[field].none

\* The non-empty values of the field over all the records.
ValuesOf(records, field) ==
    {records[i][field] : i \in
        {j \in 1..Len(records) :
            ~FieldMissing(records[j], field) /\ records[j][field].s # << >>}}

\* C21: validate_data_quality returns status "error" exactly when its
\* input is empty and "success" for every non-empty input, whatever is
\* missing; missing_fields is the set of the four required fields absent
\* or null in at least one of the first min(100, n) records, so a field
\* missing only after the 100th record is not reported; total_records,
\* the fuel types and the least and greatest settlement date are taken
\* over the whole input.
C21_RawQualityReport ==
    prep.pc = "quality_checked" =>
        LET data   == prep.data
            n      == Len(prep.data)
            report == prep.report
            first  == IF n < 100 THEN n ELSE 100
            dates  == ValuesOf(data, "settlementDate")
        IN  /\ (report.status = "error") = (n = 0)
            /\ n > 0 =>
                  /\ report.status = "success"
                  /\ report.total_records = n
                  /\ report.missing_fields =
                        {field \in FourCriticalFields :
                            \E i \in 1..first : FieldMissing(data[i], field)}
                  /\ report.fuel_types = ValuesOf(data, "psrType")
                  /\ dates = {} =>
                        report.date_range = [min |-> None, max |-> None]
                  /\ \A d \in dates :
                        /\ report.date_range.min \in dates
                        /\ report.date_range.max \in dates
                        /\ ~LexLess(d.s, report.date_range.min.s)
                        /\ ~LexLess(report.date_range.max.s, d.s)

\* 101 records of which only the last lacks a quantity and is of another
\* day and fuel type: nothing is reported missing, and the
\* fuel type and the date of the last record are in the report.
C21_Witness ==
    /\ prep.pc = "quality_checked"
    /\ Len(prep.data) = 101
    /\ prep.data[101]["psrType"] = WIND
    /\ FieldMissing(prep.data[101], "quantity")
    /\ prep.report.missing_fields = {}
    /\ WIND \in prep.report.fuel_types
    /\ prep.report.date_range.max = D2

(***************************************************************************)
(* C26                                                                     *)
(***************************************************************************)
RouteCompleted ==
    /\ route.pc = "done"
    /\ ~route.background
    /\ route.response.status = "completed"

\* C26: the failed_chunks count the fetch route returns to its caller is
\* the number of chunks whose fetch failed in the orchestrator run that
\* served the request; records_fetched is the number of records the
\* orchestrator returned and records_stored is inserted + updated of the
\* upsert.
C26_ResponseCounts ==
    RouteCompleted =>
        /\ route.response.failed_chunks = route.orch_failed_chunks
        /\ route.response.records_fetched = Len(route.raw_data)
        /\ route.response.records_stored =
              route.storage_result.inserted + route.storage_result.updated

(***************************************************************************)
(* C27                                                                     *)
(***************************************************************************)
PipelineStages ==
    <<"fetch", "raw_gate", "deduplicate", "normalize", "processed_gate",
      "store">>

RouteActive == route.pc # "idle"

StoreStageEntered ==
    RouteActive /\ Len(route.stages) = 6

\* The stages so far are the first stages of the pipeline, in order; the
\* store stage is entered only after both gates said success and its
\* batch is the normalizer's output; a run that did not enter it has left
\* the store as it was.
C27_StagesInOrder ==
    RouteActive =>
        /\ Len(route.stages) <= 6
        /\ route.stages = SubSeq(PipelineStages, 1, Len(route.stages))
        /\ route.raw_data = << >> => Len(route.stages) <= 1
        /\ StoreStageEntered =>
              /\ validate_data_quality(route.raw_data).status = "success"
              /\ validate_processed_data(route.processed_data).status
                    = "success"
              /\ ~deduplicate_data(route.raw_data).raised
              /\ route.processed_data =
                    handle_missing_fields(deduplicate_data(route.raw_data).out)
              /\ route.pc = "storing" => sess.records = route.processed_data
        /\ ~StoreStageEntered =>
              /\ db = route.db_before
              /\ sess = IdleSess

\* C27: in one run of the fetch-and-process pipeline the stages happen in
\* the order fetch, raw quality gate, deduplicate, normalize, processed
\* quality gate, store; store_records is called at most once, only with
\* the normalizer's output and only after both gates returned success;
\* when the fetch returns no records or a gate does not return success
\* nothing is written to the store.
C27_PipelineOrder ==
    /\ []C27_StagesInOrder
    /\ [][db' # db => (route.pc = "storing" /\ StoreStageEntered)]_vars
    /\ [][(RouteActive /\ route'.pc # "idle") =>
            /\ Len(route'.stages) >= Len(route.stages)
            /\ SubSeq(route'.stages, 1, Len(route.stages)) = route.stages]_vars

\* A run went through the six stages, stored a batch smaller than what
\* was fetched, and the store changed.
C27_Witness ==
    /\ route.pc = "done"
    /\ route.stages = PipelineStages
    /\ Len(route.raw_data) = 2
    /\ Len(route.processed_data) = 1
    /\ db # route.db_before

(***************************************************************************)
(* C29                                                                     *)
(***************************************************************************)
\* A gate turned the run's data down.
GateRejected ==
    \/ /\ Len(route.stages) >= 2
       /\ validate_data_quality(route.raw_data).status # "success"
    \/ /\ Len(route.stages) >= 5
       /\ validate_processed_data(route.processed_data).status # "success"

\* C29: when the orchestrator returns no records for the requested range
\* the fetch endpoint answers 404 (not 500), when a quality gate rejects
\* the data it answers 400, and in both cases nothing is stored.
C29_NoDataIs404 ==
    (route.pc = "done" /\ ~route.background) =>
        /\ route.raw_data = << >> =>
              /\ route.response.status_code = 404
              /\ db = route.db_before
        /\ GateRejected =>
              /\ route.response.status_code = 400
              /\ db = route.db_before

(***************************************************************************)
(* C30                                                                     *)
(***************************************************************************)
BothCallsOver ==
    /\ sess.pc = "concurrent"
    /\ \A c \in Calls : sess.calls[c].pc \in {"returned", "raised"}

RowsOfKey(record) ==
    {id \in 1..Len(db) : query_matches(db[id], record)}

\* The positions of the two batches that hold one shared key.
SharedKeys ==
    {p \in (1..MaxConcurrentBatch + 1) \X (1..MaxConcurrentBatch + 1) :
        /\ p[1] <= Len(sess.calls[1].records)
        /\ p[2] <= Len(sess.calls[2].records)
        /\ same_natural_key(sess.calls[1].records[p[1]],
                            sess.calls[2].records[p[2]])}

\* Neither batch names a key twice and no record has a null settlementDate:
\* each call on its own inserts or updates every record and returns.
PlainBatches ==
    \A c \in Calls :
        LET records == sess.calls[c].records
        IN  /\ \A i \in 1..Len(records) :
                  ~get(records[i], "settlementDate").none
            /\ \A i, j \in 1..Len(records) :
                  i # j => ~same_natural_key(records[i], records[j])

\* C30: when two store_records batches holding the same natural key run
\* concurrently in separate sessions, under every interleaving the store
\* ends with exactly one record for that key and both calls return
\* normally, the key counted as inserted by one and updated by the other.
C30_ConcurrentUpsertConverges ==
    (BothCallsOver /\ PlainBatches) =>
        /\ \A c \in Calls : sess.calls[c].pc = "returned"
        /\ \A p \in SharedKeys :
              Cardinality(RowsOfKey(sess.calls[1].records[p[1]])) = 1
        /\ \E c \in Calls :
              /\ sess.calls[c].inserted_count >= 1
              /\ sess.calls[3 - c].updated_count >= 1

====
